---------------------------- MODULE Spec2Model ----------------------------
(***************************************************************************)
(* Model of the iBMC driver's connection layer                             *)
(* (ironic/drivers/modules/ibmc/utils.py):                                 *)
(*                                                                         *)
(*   SpecReq    one IBMCConnector executing one make_req call: the         *)
(*              retrying decorator, the 401 renewal, the entity-tag fetch  *)
(*              of PATCH/PUT and IBMCSession.create, as an explicit call   *)
(*              stack driven by the controller's answers.                  *)
(*   SpecCache  SessionCache used by one caller at a time.                 *)
(*   SpecCacheConc  SessionCache used by several callers whose             *)
(*              statements interleave.                                     *)
(*   SpecOp     the driver operations of power.py, management.py and       *)
(*              vendor.py run one after the other on the session cache,    *)
(*              each make_req call reduced to how it ends.                 *)
(***************************************************************************)
EXTENDS Integers, Sequences, FiniteSets, TLC

(***************************************************************************)
(* Bounds of the model.                                                    *)
(***************************************************************************)
\* largest value of CONF.ibmc.connection_attempts that is explored (min=1)
MaxAttempts == 2
\* tokens the controller issues
MaxTokens == 3
\* number of nested IBMCSession.create() calls at which the interpreter's
\* recursion limit is hit (the code itself has no limit on this nesting)
MaxDepth == 2
\* SessionCache.MAX_SESSIONS (1000 in the code), scaled down as the unit test
\* test_expire_old_sessions does
MAX_SESSIONS == 2
\* number of acquisitions (SessionCache.__enter__ calls) that are explored
MaxAcq == 4
\* number of driver operations that are explored
MaxOps == 2
\* number of IBMCSystem.get calls on one object that are explored
MaxGets == 3
\* number of power-state polls after which the wait has timed out at the
\* latest (the timeout itself is CONF.conductor.power_state_change_timeout)
MaxPolls == 2

VARIABLES
    \* ---- IBMCConnector.make_req ----
    attempts,   \* CONF.ibmc.connection_attempts
    session,    \* the IBMCSession of the connector: set, whether
                \* IBMCConnector._ibmc_session is set (it is None while
                \* IBMCService.__init__ runs); token and expire_at, the
                \* fields of the IBMCSession; header, the X-Auth-Token
                \* header of the connector's requests session
    stack,      \* call stack of make_req / IBMCSession.create frames
    ret,        \* value or exception travelling to the frame on top
    call,       \* the method of the execute call, "none" before it starts
    hist,       \* what the controller has seen during the execute call
    \* ---- SessionCache ----
    sessions,   \* SessionCache.sessions: sequence of [key, conn]
    pc,         \* where each caller is
    cur,        \* each caller's driver_info
    held,       \* the connection each caller got from __enter__
    pend,       \* the exception leaving each caller's with-block
    nextConn,   \* number of IBMCService objects constructed so far
    op,         \* the driver operation that is running or ran last
    \* ---- tasks of the conductor calling the interfaces ----
    tasks,      \* each caller's task: its node, its lock, the interface
                \* method it calls and how far the call is
    reservation, \* node.reservation: the task holding the exclusive lock
    \* ---- parse_driver_info ----
    driver_info, \* node.driver_info of the node that is parsed
    files,      \* the paths that are a file or a directory
    parsed,     \* what parse_driver_info returned or raised
    \* ---- IBMCSystem ----
    system,     \* the IBMCSystem object: its fields, the requests it
                \* sent and what its last call returned or raised
    remote,     \* what the controller holds: the members of the systems
                \* collection, the system resource and the BIOS resource
    chist       \* history of the cache: nAcq, the number of __enter__
                \* calls; acq, the driver_infos acquired so far, kept while
                \* clean: no construction failed and no body raised; rel,
                \* the driver_info whose entry the latest __exit__ removed
                \* (recorded when log is set); failed, the driver_info
                \* whose construction failed in the latest __enter__
                \* (recorded when log is set)

reqVars == <<attempts, session, stack, ret, call, hist>>
cacheVars == <<sessions, pc, cur, held, pend, nextConn, chist>>
taskVars == <<tasks, reservation>>
parseVars == <<driver_info, files, parsed>>
sysVars == <<system, remote>>
opVars == <<op, taskVars, parseVars, sysVars>>
vars == <<attempts, session, stack, ret, call, hist,
          sessions, pc, cur, held, pend, nextConn, chist, op,
          tasks, reservation, driver_info, files, parsed, system, remote>>

(***************************************************************************)
(* The controller's answers.                                               *)
(***************************************************************************)
Methods == {"GET", "POST", "PATCH", "PUT"}
NoEtag == "none"
Etags == {"e1", "e2"}

\* status 0: no response at all (requests' ConnectionError / Timeout)
NoResponse == 0

\* IBMCSession.__init__, lines 386-387: _token and _expire_at are None;
\* tokens are numbered in the order the controller issues them
NoToken == 0
FirstToken == 1
NoTimeout == 0

\* mutant: PUT is sent without the entity-tag fetch
NeedsEtag_PatchOnly(method) == method = "PATCH"

\* _make_req, line 326: the verbs that fetch the entity tag first
NeedsEtag(method) == method \in {"PATCH", "PUT"}

\* What the controller can answer to one request.  applied: the controller
\* carried the request out (a request whose answer is lost was carried out).
\* field: the field read from the body is there (Id of the login POST,
\* SessionTimeout of the session-service GET); token: the X-Auth-Token
\* header of the answer to the login POST, one of tokens; timeout: the
\* SessionTimeout of the session service, one of timeouts.
AnswersWith(method, url, tokens, timeouts) ==
    LET fail == [status : {NoResponse, 401, 404, 500}, etag : {NoEtag},
                 field : {FALSE}, applied : {FALSE}, token : {NoToken},
                 timeout : {NoTimeout}]
        lost == IF url = "res" /\ method # "GET"
                THEN {[status |-> NoResponse, etag |-> NoEtag,
                       field |-> FALSE, applied |-> TRUE,
                       token |-> NoToken, timeout |-> NoTimeout]}
                ELSE {}
        ok == IF url = "res" /\ method = "GET"
              THEN [status : {200}, etag : Etags \cup {NoEtag},
                    field : {TRUE}, applied : {FALSE}, token : {NoToken},
                    timeout : {NoTimeout}]
              ELSE IF url = "res"
              THEN [status : {200}, etag : {NoEtag},
                    field : {TRUE}, applied : {TRUE}, token : {NoToken},
                    timeout : {NoTimeout}]
              ELSE IF url = "login"
              THEN [status : {200}, etag : {NoEtag},
                    field : BOOLEAN, applied : {FALSE}, token : tokens,
                    timeout : {NoTimeout}]
              ELSE {[status |-> 200, etag |-> NoEtag, field |-> f,
                     applied |-> FALSE, token |-> NoToken,
                     timeout |-> IF f THEN t ELSE NoTimeout] :
                       f \in BOOLEAN, t \in timeouts}
    IN fail \cup lost \cup ok

\* a controller whose tokens and session timeout are not told apart
Answers(method, url) == AnswersWith(method, url, {FirstToken}, {300})

\* a controller that issues a new token with every login, MaxTokens of them
\* at most; it sends no entity tag, and the only client error it answers
\* is 401
FreshAnswers(method, url) ==
    {a \in AnswersWith(method, url, {hist.issued + 1}, {120, 300}) :
        /\ a.status # 404 /\ a.etag = NoEtag
        /\ a.token # NoToken => hist.issued < MaxTokens}

\* a controller that never answers 401
UnexpiredAnswers(method, url) ==
    {a \in Answers(method, url) : a.status # 401}

(***************************************************************************)
(* Frames, return values and exceptions.                                   *)
(***************************************************************************)
NoRet == [k |-> "none", type |-> "", status |-> 0, etag |-> NoEtag,
          field |-> FALSE, token |-> NoToken, timeout |-> NoTimeout]
Value(a) == [k |-> "val", type |-> "", status |-> a.status, etag |-> a.etag,
             field |-> a.field, token |-> a.token, timeout |-> a.timeout]
Exc(type, status) == [k |-> "exc", type |-> type, status |-> status,
                      etag |-> NoEtag, field |-> FALSE, token |-> NoToken,
                      timeout |-> NoTimeout]

\* a running make_req: attempt is the decorator's attempt_number, phase is
\* "first" (line 307), "renew" (line 313) or "resend" (line 319), step is
\* where _make_req is: "start", "etag" (line 327) or "send" (line 338)
\* token: the X-Auth-Token passed in headers (line 404), old: unused
MakeReqFrame(method, url) ==
    [f |-> "make_req", method |-> method, url |-> url, attempt |-> 1,
     phase |-> "first", step |-> "start", ifMatch |-> NoEtag,
     token |-> NoToken, old |-> NoToken]

\* a running IBMCSession.create: step "post" (line 396) or "get" (line
\* 404); token: the local variable token (line 401); old: the token the
\* IBMCSession held when create was called
CreateFrame ==
    [f |-> "create", method |-> "", url |-> "", attempt |-> 0,
     phase |-> "", step |-> "post", ifMatch |-> NoEtag,
     token |-> NoToken, old |-> session.token]

\* the IBMCSession and the connector's header before any login, and after
\* the first login of a controller whose session timeout is 300 seconds
NoSession ==
    [set |-> FALSE, token |-> NoToken,
     expire_at |-> [created |-> NoToken, seconds |-> 0], header |-> NoToken]

\* mutant: the expiry is the end of the session as the controller counts
ExpireAt_NoMargin(token, timeout) ==
    [created |-> token, seconds |-> timeout]

\* create, lines 409-411: now + (session_timeout - 60 seconds); the moment
\* of the creation is named by the token of the handshake
ExpireAt(token, timeout) == [created |-> token, seconds |-> timeout - 60]

\* create, lines 413-415: the token and the expiry are stored
Created(s, token, timeout) ==
    [s EXCEPT !.token = token, !.expire_at = ExpireAt(token, timeout)]

\* mutant: the header keeps the token it had
HeaderUpdate_Stale(s) == s

\* set_ibmc_session, lines 281-283, and renew_ibmc_session, lines 288-290:
\* the header takes the token of the IBMCSession
HeaderUpdate(s) == [s EXCEPT !.header = s.token]

\* IBMCService.__init__ has returned: the session is set (lines 245-250)
Established ==
    HeaderUpdate([Created(NoSession, FirstToken, 300) EXCEPT !.set = TRUE])

\* _make_req, lines 335-336: prepare_request merges the headers of the
\* call into those of the requests session; the X-Auth-Token of the call
\* wins
AuthToken(t) == IF t.token # NoToken THEN t.token ELSE session.header

Top == stack[Len(stack)]
Pop(s) == SubSeq(s, 1, Len(s) - 1)
SetTop(s, t) == [s EXCEPT ![Len(s)] = t]
Depth(s) == Cardinality({i \in 1..Len(s) : s[i].f = "create"})

Started == call # "none"
Done == Started /\ stack = <<>>

(***************************************************************************)
(* History of one execute call (what a test double of the controller      *)
(* would record).                                                          *)
(***************************************************************************)
\* which request of the execute call a frame sends: its own request, the
\* entity-tag GET, the login POST or the session-timeout GET
Kind(t) ==
    IF t.url = "login" THEN "login"
    ELSE IF t.url = "svc" THEN "svc"
    ELSE IF t.method = call THEN "req" ELSE "etag"

InitHist ==
    [nReq |-> 0,         \* sends of the request itself
     nConn |-> 0,        \* sends of the request that got no response
     nOther |-> 0,       \* sends of the request answered 401, 4xx or 5xx
     okSeen |-> FALSE,   \* a send of the request was answered 2xx
     renewTop |-> 0,     \* renewals started by the execute call's own frame
     resend401 |-> FALSE,  \* the re-send after a renewal was answered 401
     moreAfterResend401 |-> FALSE,  \* a request or renewal followed it
     applied |-> 0,      \* times the controller carried the request out
     lastGet |-> NoEtag, \* entity tag of the latest answered GET of the url
     getFresh |-> FALSE, \* a GET of the url was answered in this _make_req
     patchOk |-> TRUE,   \* every PATCH/PUT so far carried that tag
     saw5xx |-> FALSE,   \* a send was answered with status >= 500
     moreAfter5xx |-> FALSE,  \* a request or renewal followed it
     sawNoTag |-> FALSE, \* an entity-tag GET came back without a tag
     moreAfterNoTag |-> FALSE,
     saw4xx |-> FALSE,   \* a send of the request was answered 4xx, not 401
     moreAfter4xx |-> FALSE,  \* a request or renewal followed it
     issued |-> 0,       \* tokens the controller has issued (counted by
                         \* Issued)
     nEtag |-> 0]        \* sends of the entity-tag GET (counted by Traced)

\* a further request or renewal happens: note what it follows
Further(h) ==
    [h EXCEPT !.moreAfter5xx = @ \/ h.saw5xx,
              !.moreAfterNoTag = @ \/ h.sawNoTag,
              !.moreAfterResend401 = @ \/ h.resend401,
              !.moreAfter4xx = @ \/ h.saw4xx]

\* the history after frame t sent its request and got answer a
Recorded(h, t, a) ==
    LET h1 == Further(h)
        isReq == Kind(t) = "req"
        isGet == t.url = "res" /\ t.method = "GET"
        isCond == t.method \in {"PATCH", "PUT"}
    IN [h1 EXCEPT
          !.nReq = IF isReq THEN @ + 1 ELSE @,
          !.nConn = IF isReq /\ a.status = NoResponse THEN @ + 1 ELSE @,
          !.nOther = IF isReq /\ a.status \notin {NoResponse, 200}
                     THEN @ + 1 ELSE @,
          !.okSeen = @ \/ (isReq /\ a.status = 200),
          !.resend401 = @ \/ (isReq /\ t.phase = "resend" /\ a.status = 401),
          !.applied = IF isReq /\ a.applied THEN @ + 1 ELSE @,
          !.lastGet = IF isGet
                      THEN (IF a.status = 200 THEN a.etag ELSE NoEtag)
                      ELSE @,
          !.getFresh = IF isGet THEN a.status = 200
                       ELSE IF isCond THEN FALSE ELSE @,
          !.patchOk = IF isCond
                      THEN @ /\ h.getFresh /\ t.ifMatch # NoEtag
                             /\ t.ifMatch = h.lastGet
                      ELSE @,
          !.saw5xx = @ \/ a.status >= 500,
          !.saw4xx = @ \/ (isReq /\ a.status \in 400..499
                                 /\ a.status # 401)]

\* the history that only counts the tokens the controller issued
Issued(h, t, a) ==
    [h EXCEPT
       !.issued = IF t.url = "login" /\ a.status = 200 THEN @ + 1 ELSE @]

\* the history that also counts the entity-tag GETs
Traced(h, t, a) ==
    [Recorded(h, t, a) EXCEPT
       !.nEtag = IF /\ Len(stack) > 1
                    /\ stack[Len(stack) - 1].f = "make_req"
                    /\ stack[Len(stack) - 1].step = "etag"
                 THEN @ + 1 ELSE @]

(***************************************************************************)
(* IBMCConnector.make_req and its retrying decorator.                      *)
(***************************************************************************)
\* mutant: a 5xx answer is re-raised like any other RequestException
MakeReqError_NoServerError(a) == Exc("RequestException", a.status)

\* _make_req, lines 341-368: what a failed send raises
MakeReqError(a) ==
    IF a.status # NoResponse /\ a.status >= 500
    THEN Exc("IBMCError", a.status)
    ELSE Exc("RequestException", a.status)

\* make_req, lines 310-311: the exception that starts a renewal
IsAuthExpired(e) ==
    e.type = "RequestException" /\ e.status # NoResponse /\ e.status = 401

\* the decorator's retry_on_exception, lines 301-302
RetryOnException(e) == e.type = "RequestException"

\* mutant: the decorator allows one attempt too many
StopMaxAttempt_OffByOne(attempt) == attempt > attempts

\* the decorator's stop_max_attempt_number, line 303
StopMaxAttempt(attempt) == attempt >= attempts

\* Exception e reaches the make_req frame on top of the stack, from its own
\* send or from a callee; h is the history so far.
\*   phase "first": e is caught at line 309: a 401 starts the renewal
\*     (line 287 raises AttributeError when no session is set yet), and
\*     anything else leaves the body of make_req;
\*   phase "renew" / "resend": e was raised inside the handler and leaves
\*     the body of make_req.
\* An exception that leaves the body reaches the decorator, which starts
\* the next attempt or re-raises e to the caller.
Raise(e, h) ==
    LET t == Top IN
    IF t.phase = "first" /\ IsAuthExpired(e)
    THEN IF ~session.set
         THEN /\ stack' = Pop(stack)
              /\ ret' = Exc("AttributeError", 0)
              /\ hist' = h
         ELSE IF Depth(stack) >= MaxDepth
         THEN /\ stack' = Pop(stack)
              /\ ret' = Exc("RecursionError", 0)
              /\ hist' = h
         ELSE /\ stack' = SetTop(stack, [t EXCEPT !.phase = "renew",
                                                   !.step = "start"])
                          \o <<CreateFrame, MakeReqFrame("POST", "login")>>
              /\ ret' = NoRet
              /\ hist' = [Further(h) EXCEPT
                            !.renewTop = IF Len(stack) = 1 THEN @ + 1 ELSE @]
    ELSE IF RetryOnException(e) /\ ~StopMaxAttempt(t.attempt)
    THEN /\ stack' = SetTop(stack, [t EXCEPT !.attempt = @ + 1,
                                              !.phase = "first",
                                              !.step = "start",
                                              !.ifMatch = NoEtag])
         /\ ret' = NoRet
         /\ hist' = h
    ELSE /\ stack' = Pop(stack)
         /\ ret' = e
         /\ hist' = h

\* a caller invokes make_req(method, url) on the resource (the execute
\* call); before the session is set IBMCService.__init__ sends the
\* root-service GET and the login's POST and GET
Execute(method) ==
    /\ ~Started
    /\ session.set \/ method \in {"GET", "POST"}
    /\ call' = method
    /\ stack' = <<MakeReqFrame(method, "res")>>
    /\ UNCHANGED <<attempts, session, ret, hist>>
    /\ UNCHANGED <<cacheVars, opVars>>

\* _make_req, lines 326-329 and _get_resource_etag, line 293
GetResourceEtag ==
    /\ stack # <<>> /\ ret.k = "none"
    /\ Top.f = "make_req" /\ Top.phase # "renew" /\ Top.step = "start"
    /\ NeedsEtag(Top.method)
    /\ stack' = SetTop(stack, [Top EXCEPT !.step = "etag"])
                \o <<MakeReqFrame("GET", Top.url)>>
    /\ hist' = [hist EXCEPT !.getFresh = FALSE]
    /\ UNCHANGED <<attempts, session, ret, call>>
    /\ UNCHANGED <<cacheVars, opVars>>

\* _get_resource_etag, lines 294-298, then _make_req line 329
EtagReturned ==
    /\ stack # <<>> /\ ret.k = "val"
    /\ Top.f = "make_req" /\ Top.phase # "renew" /\ Top.step = "etag"
    /\ IF ret.etag = NoEtag
       THEN Raise(Exc("IBMCError", 0), [hist EXCEPT !.sawNoTag = TRUE])
       ELSE /\ stack' = SetTop(stack, [Top EXCEPT !.step = "send",
                                                  !.ifMatch = ret.etag])
            /\ ret' = NoRet
            /\ hist' = hist
    /\ UNCHANGED <<attempts, session, call>>
    /\ UNCHANGED <<cacheVars, opVars>>

\* the frame on top is about to send its request
Sending ==
    /\ stack # <<>> /\ ret.k = "none"
    /\ Top.f = "make_req" /\ Top.phase # "renew"
    /\ \/ Top.step = "send"
       \/ Top.step = "start" /\ ~NeedsEtag(Top.method)

\* _make_req, lines 335-368: send the request; the controller gives one of
\* the answers Ctl(method, url), and Rec is the history that is kept
SendWith(Ctl(_, _), Rec(_, _, _)) ==
    /\ Sending
    /\ \E a \in Ctl(Top.method, Top.url) :
          LET h == Rec(hist, Top, a) IN
          IF a.status = 200
          THEN /\ stack' = Pop(stack)
               /\ ret' = Value(a)
               /\ hist' = h
          ELSE Raise(MakeReqError(a), h)
    /\ UNCHANGED <<attempts, session, call>>
    /\ UNCHANGED <<cacheVars, opVars>>

Send == SendWith(Answers, Recorded)

\* the same against the controller that issues a new token with every login
SendFresh == SendWith(FreshAnswers, Issued)

\* the same against the controller whose sessions do not expire
SendUnexpired == SendWith(UnexpiredAnswers, Traced)

\* an exception raised by a callee (the entity-tag GET, or create() inside
\* renew_ibmc_session) arrives in make_req
CalleeRaised ==
    /\ stack # <<>> /\ ret.k = "exc"
    /\ Top.f = "make_req"
    /\ Raise(ret, hist)
    /\ UNCHANGED <<attempts, session, call>>
    /\ UNCHANGED <<cacheVars, opVars>>

\* renew_ibmc_session, lines 287-290, returned: make_req line 319
Renewed ==
    /\ stack # <<>> /\ ret.k = "val"
    /\ Top.f = "make_req" /\ Top.phase = "renew"
    /\ stack' = SetTop(stack, [Top EXCEPT !.phase = "resend",
                                          !.step = "start",
                                          !.ifMatch = NoEtag])
    /\ ret' = NoRet
    /\ session' = HeaderUpdate(session)
    /\ UNCHANGED <<attempts, call, hist>>
    /\ UNCHANGED <<cacheVars, opVars>>

(***************************************************************************)
(* IBMCSession.create.                                                     *)
(***************************************************************************)
\* create, lines 396-405: the login POST returned
LoginReturned ==
    /\ stack # <<>> /\ ret.k = "val"
    /\ Top.f = "create" /\ Top.step = "post"
    /\ IF ret.field
       THEN /\ stack' = SetTop(stack, [Top EXCEPT !.step = "get",
                                                  !.token = ret.token])
                        \o <<[MakeReqFrame("GET", "svc")
                                 EXCEPT !.token = ret.token]>>
            /\ ret' = NoRet
       ELSE /\ stack' = Pop(stack)
            /\ ret' = Exc("IBMCError", 0)
    /\ UNCHANGED <<attempts, session, call, hist>>
    /\ UNCHANGED <<cacheVars, opVars>>

\* create, lines 406-415: the session-timeout GET returned
TimeoutReturned ==
    /\ stack # <<>> /\ ret.k = "val"
    /\ Top.f = "create" /\ Top.step = "get"
    /\ stack' = Pop(stack)
    /\ ret' = IF ret.field THEN [ret EXCEPT !.etag = NoEtag]
              ELSE Exc("IBMCError", 0)
    /\ session' = IF ret.field THEN Created(session, Top.token, ret.timeout)
                  ELSE session
    /\ UNCHANGED <<attempts, call, hist>>
    /\ UNCHANGED <<cacheVars, opVars>>

\* an exception of the login POST or the session-timeout GET leaves create
CreateRaised ==
    /\ stack # <<>> /\ ret.k = "exc"
    /\ Top.f = "create"
    /\ stack' = Pop(stack)
    /\ UNCHANGED <<attempts, session, ret, call, hist>>
    /\ UNCHANGED <<cacheVars, opVars>>

(***************************************************************************)
(* SessionCache and get_system.                                            *)
(***************************************************************************)
Callers == {"c1", "c2"}

\* driver_info as parse_driver_info returns it: a base configuration and
\* one that differs from it in the password only, in the address, in the
\* username, in the verification policy, and in everything
Info(a, u, p, v) ==
    [address |-> a, username |-> u, password |-> p, verify_ca |-> v]
DriverInfos ==
    {Info("https://bmc.foo", "foo", "pw1", TRUE),
     Info("https://bmc.foo", "foo", "pw2", TRUE),
     Info("https://bmc.bar", "foo", "pw1", TRUE),
     Info("https://bmc.foo", "bar", "pw1", TRUE),
     Info("https://bmc.foo", "foo", "pw1", FALSE),
     Info("https://bmc.bar", "bar", "pw2", FALSE)}
NoInfo == Info("", "", "", TRUE)

\* IBMCService.__init__, lines 232-235: the n-th IBMCService constructed
\* keeps the parameters it logged in with
Service(n, di) == [id |-> n, info |-> di]
NoService == Service(0, NoInfo)

\* mutant: the password is part of the cache key
SessionKey_WithPassword(di) ==
    <<di.address, di.username, di.password, di.verify_ca>>

\* SessionCache.__init__, lines 138-141
SessionKey(di) == <<di.address, di.username, di.verify_ca>>

\* OrderedDict: position of a key, 0 when absent
IndexOf(ss, key) ==
    IF \E i \in 1..Len(ss) : ss[i].key = key
    THEN CHOOSE i \in 1..Len(ss) : ss[i].key = key
    ELSE 0

\* OrderedDict.pop(key, None)
PopKey(ss, key) ==
    LET i == IndexOf(ss, key) IN
    IF i = 0 THEN ss
    ELSE SubSeq(ss, 1, i - 1) \o SubSeq(ss, i + 1, Len(ss))

\* OrderedDict.__setitem__: a new key goes to the end, a key that is present
\* keeps its place
SetItem(ss, key, conn) ==
    LET i == IndexOf(ss, key) IN
    IF i = 0 THEN Append(ss, [key |-> key, conn |-> conn])
    ELSE [ss EXCEPT ![i] = [key |-> key, conn |-> conn]]

\* mutant: the newest entry is expired
ExpiredOldest_Newest(ss) ==
    IF Len(ss) >= MAX_SESSIONS
    THEN PopKey(ss, ss[Len(ss)].key)
    ELSE ss

\* mutant: the bound is compared with > instead of >=
ExpiredOldest_OffByOne(ss) ==
    IF Len(ss) > MAX_SESSIONS
    THEN PopKey(ss, ss[1].key)
    ELSE ss

\* SessionCache._expire_oldest_session, lines 167-172
ExpiredOldest(ss) ==
    IF Len(ss) >= MAX_SESSIONS
    THEN PopKey(ss, ss[1].key)
    ELSE ss

\* what leaves IBMCService.__init__ or conn.get_system: nothing, an
\* exception of the requests library, or a domain error
Outcomes == {"ok", "RequestException", "IBMCError"}

\* line 188, SessionCache(driver_info).__enter__, line 145: look the key up
Enter(c, di) ==
    /\ pc[c] = "idle"
    /\ chist.nAcq < MaxAcq
    /\ cur' = [cur EXCEPT ![c] = di]
    /\ LET i == IndexOf(sessions, SessionKey(di)) IN
       IF i # 0
       THEN /\ held' = [held EXCEPT ![c] = sessions[i].conn]
            /\ pc' = [pc EXCEPT ![c] = "body"]
            /\ chist' = [chist EXCEPT !.nAcq = @ + 1,
                                      !.failed = NoInfo,
                                      !.acq = IF chist.clean
                                              THEN Append(@, di) ELSE @]
       ELSE /\ held' = [held EXCEPT ![c] = NoService]
            /\ pc' = [pc EXCEPT ![c] = "construct"]
            /\ chist' = [chist EXCEPT !.nAcq = @ + 1, !.failed = NoInfo]
    /\ UNCHANGED <<sessions, pend, nextConn>>
    /\ UNCHANGED <<reqVars, opVars>>

\* mutant: room is made for the new entry before it is constructed
Construct_EvictsFirst(c) ==
    /\ pc[c] = "construct"
    /\ \E o \in Outcomes :
          IF o = "ok"
          THEN /\ nextConn' = nextConn + 1
               /\ held' = [held EXCEPT ![c] = Service(nextConn + 1, cur[c])]
               /\ pc' = [pc EXCEPT ![c] = "expire"]
               /\ UNCHANGED <<cur, chist>>
          ELSE /\ pc' = [pc EXCEPT ![c] = "idle"]
               /\ cur' = [cur EXCEPT ![c] = NoInfo]
               /\ chist' = [chist EXCEPT
                               !.clean = FALSE, !.acq = <<>>,
                               !.failed = IF chist.log THEN cur[c]
                                          ELSE NoInfo]
               /\ UNCHANGED <<nextConn, held>>
    /\ sessions' = ExpiredOldest(sessions)
    /\ UNCHANGED pend
    /\ UNCHANGED <<reqVars, opVars>>

\* __enter__, lines 148-153: IBMCService(...) is constructed (root-service
\* GET and login handshake); an exception leaves __enter__, and __exit__ is
\* not run for a with-statement whose __enter__ raised
Construct(c) ==
    /\ pc[c] = "construct"
    /\ \E o \in Outcomes :
          IF o = "ok"
          THEN /\ nextConn' = nextConn + 1
               /\ held' = [held EXCEPT ![c] = Service(nextConn + 1, cur[c])]
               /\ pc' = [pc EXCEPT ![c] = "expire"]
               /\ UNCHANGED <<cur, chist>>
          ELSE /\ pc' = [pc EXCEPT ![c] = "idle"]
               /\ cur' = [cur EXCEPT ![c] = NoInfo]
               /\ chist' = [chist EXCEPT
                               !.clean = FALSE, !.acq = <<>>,
                               !.failed = IF chist.log THEN cur[c]
                                          ELSE NoInfo]
               /\ UNCHANGED <<nextConn, held>>
    /\ UNCHANGED <<sessions, pend>>
    /\ UNCHANGED <<reqVars, opVars>>

\* __enter__, line 155
ExpireOldest(c) ==
    /\ pc[c] = "expire"
    /\ sessions' = ExpiredOldest(sessions)
    /\ pc' = [pc EXCEPT ![c] = "insert"]
    /\ UNCHANGED <<cur, held, pend, nextConn, chist>>
    /\ UNCHANGED <<reqVars, opVars>>

\* __enter__, lines 157-159
Insert(c) ==
    /\ pc[c] = "insert"
    /\ sessions' = SetItem(sessions, SessionKey(cur[c]), held[c])
    /\ pc' = [pc EXCEPT ![c] = "body"]
    /\ chist' = [chist EXCEPT !.acq = IF chist.clean
                                      THEN Append(@, cur[c]) ELSE @]
    /\ UNCHANGED <<cur, held, pend, nextConn>>
    /\ UNCHANGED <<reqVars, opVars>>

\* _get_system, line 189: the body of the with-statement calls
\* conn.get_system, which sends a GET on the connector of the Transport it
\* got (IBMCSystem.__init__ -> make_req); the caller blocks until the
\* controller answers
BodySend(c) ==
    /\ pc[c] = "body"
    /\ pc' = [pc EXCEPT ![c] = "request"]
    /\ UNCHANGED <<sessions, cur, held, pend, nextConn, chist>>
    /\ UNCHANGED <<reqVars, opVars>>

\* _get_system, line 189: the requests of the body are answered or fail,
\* and the body ends
Body(c) ==
    /\ pc[c] = "request"
    /\ \E o \in Outcomes : pend' = [pend EXCEPT ![c] = o]
    /\ pc' = [pc EXCEPT ![c] = "exit"]
    /\ UNCHANGED <<sessions, cur, held, nextConn, chist>>
    /\ UNCHANGED <<reqVars, opVars>>

\* mutant: the entry is given up after every exception
GivesUpService_AnyError(exc) == exc # "ok"

\* __exit__, line 164: the exceptions after which the entry is given up
GivesUpService(exc) == exc = "RequestException"

\* SessionCache.__exit__, lines 161-165
Exit(c) ==
    /\ pc[c] = "exit"
    /\ sessions' = IF GivesUpService(pend[c])
                   THEN PopKey(sessions, SessionKey(cur[c]))
                   ELSE sessions
    /\ pc' = [pc EXCEPT ![c] = "idle"]
    /\ cur' = [cur EXCEPT ![c] = NoInfo]
    /\ held' = [held EXCEPT ![c] = NoService]
    /\ pend' = [pend EXCEPT ![c] = "ok"]
    /\ chist' = [chist EXCEPT
                    !.clean = @ /\ pend[c] = "ok",
                    !.acq = IF pend[c] = "ok" THEN @ ELSE <<>>,
                    !.rel = IF chist.log /\ sessions' # sessions
                            THEN cur[c] ELSE NoInfo]
    /\ UNCHANGED nextConn
    /\ UNCHANGED <<reqVars, opVars>>

(***************************************************************************)
(* The driver operations: IBMCPower, IBMCManagement, IBMCVendor.           *)
(***************************************************************************)
OpNames == {"get_power_state", "set_power_state", "reboot",
            "set_boot_device", "set_boot_mode", "inject_nmi", "boot_up_seq"}

\* the power states of ironic.common.states that SET_POWER_STATE_MAP knows
PowerStates ==
    {"POWER_ON", "POWER_OFF", "REBOOT", "SOFT_REBOOT", "SOFT_POWER_OFF"}

\* PowerState as the controller reports it: the two values of
\* GET_POWER_STATE_MAP and any other value
SystemPowerStates ==
    {"SYSTEM_POWER_STATE_ON", "SYSTEM_POWER_STATE_OFF", "Other"}

\* mappings.py, lines 23-31
SET_POWER_STATE_MAP_REV(power_state) ==
    CASE power_state = "POWER_ON" -> "RESET_ON"
      [] power_state = "POWER_OFF" -> "RESET_FORCE_OFF"
      [] power_state = "REBOOT" -> "RESET_FORCE_RESTART"
      [] power_state = "SOFT_REBOOT" -> "RESET_FORCE_POWER_CYCLE"
      [] power_state = "SOFT_POWER_OFF" -> "RESET_GRACEFUL_SHUTDOWN"
      [] OTHER -> "None"

\* mappings.py, lines 35-38
GET_POWER_STATE_MAP(state) ==
    CASE state = "SYSTEM_POWER_STATE_ON" -> "POWER_ON"
      [] state = "SYSTEM_POWER_STATE_OFF" -> "POWER_OFF"
      [] OTHER -> "None"

\* mutant: the wait is for the requested state itself
TargetState_Unmapped(power_state) == power_state

\* power.py, lines 16-20 and 83: TARGET_STATE_MAP.get(power_state,
\* power_state)
TargetState(power_state) ==
    CASE power_state = "REBOOT" -> "POWER_ON"
      [] power_state = "SOFT_REBOOT" -> "POWER_ON"
      [] power_state = "SOFT_POWER_OFF" -> "POWER_OFF"
      [] OTHER -> power_state

\* mutant: reboot always restarts
RebootSignal_AlwaysRestart(current) == SET_POWER_STATE_MAP_REV("REBOOT")

\* reboot, lines 105-110: the reset type for the current power state
RebootSignal(current) ==
    IF current = "POWER_ON"
    THEN SET_POWER_STATE_MAP_REV("REBOOT")
    ELSE SET_POWER_STATE_MAP_REV("POWER_ON")

(***************************************************************************)
(* parse_driver_info.  The values of node.driver_info are untyped JSON     *)
(* values.  A string is held as the sequence of its lexical parts: the     *)
(* delimiters of a URI reference (":", "//", "/", "?", "#") and the text   *)
(* between them, so that "https://example.com:42" is                       *)
(* <<"https", ":", "//", "example.com", ":", "42">> and "" is <<>>.        *)
(***************************************************************************)
StrVal(toks) == [kind |-> "str", toks |-> toks]
IntVal(n) == [kind |-> "int", toks |-> <<n>>]
BoolVal(b) == [kind |-> "bool", toks |-> <<IF b THEN "True" ELSE "False">>]
Null == [kind |-> "null", toks |-> <<>>]
\* the key is not in the dictionary
Absent == [kind |-> "absent", toks |-> <<>>]

\* node.driver_info
DriverInfo(a, u, p, v) ==
    [ibmc_address |-> a, ibmc_username |-> u, ibmc_password |-> p,
     ibmc_verify_ca |-> v]
NoNode == DriverInfo(Absent, Absent, Absent, Absent)

\* the Python string of a sequence of parts
RECURSIVE Join(_)
Join(toks) == IF toks = <<>> THEN "" ELSE Head(toks) \o Join(Tail(toks))

\* the truth value of driver_info.get(key): None (also for an absent key),
\* the empty string, 0 and False are false
Truthy(v) ==
    CASE v.kind = "str" -> v.toks # <<>>
      [] v.kind = "int" -> v.toks # <<"0">>
      [] v.kind = "bool" -> v.toks = <<"True">>
      [] OTHER -> FALSE

REQUIRED_PROPERTIES == {"ibmc_address", "ibmc_username", "ibmc_password"}

\* mutant: the password is not looked at
MissingInfo_NoPassword(node) ==
    \E key \in {"ibmc_address", "ibmc_username"} : ~Truthy(node[key])

\* parse_driver_info, lines 71-73: missing_info is not empty
MissingInfo(node) ==
    \E key \in REQUIRED_PROPERTIES : ~Truthy(node[key])

\* rfc3986.uri_reference(address).scheme: the text before the first ":"
\* when no "/", "?" or "#" comes before it; "" for None
UriDelims == {":", "//", "/", "?", "#"}
UriScheme(t) ==
    IF Len(t) >= 2 /\ t[1] \notin UriDelims /\ t[2] = ":" THEN t[1] ELSE ""

\* the parts up to the next "/", "?" or "#"
RECURSIVE UriSegment(_)
UriSegment(t) ==
    IF t = <<>> \/ Head(t) \in {"//", "/", "?", "#"} THEN <<>>
    ELSE <<Head(t)>> \o UriSegment(Tail(t))

\* rfc3986.uri_reference(address).authority: what follows a "//" that
\* comes first or right after the scheme; <<>> for None or ''
UriAuthority(t) ==
    LET r == IF UriScheme(t) # "" THEN SubSeq(t, 3, Len(t)) ELSE t
    IN IF r # <<>> /\ Head(r) = "//" THEN UriSegment(Tail(r)) ELSE <<>>

\* the texts that are a scheme name, a registered name or a port by the
\* grammar of RFC 3986, and a text with a character it does not allow
SchemeNames == {"https", "http", "example.com", "bmc.foo", "bmc.bar"}
RegNames == SchemeNames \cup {"42", "banana!", "redfish"}
Ports == {"42"}
IllegalText == {"exa mple.com"}

\* parsed.is_valid(require_scheme=True, require_authority=True)
UriIsValid(t) ==
    /\ UriScheme(t) \in SchemeNames
    /\ LET a == UriAuthority(t) IN
          \/ Len(a) = 1 /\ a[1] \in RegNames
          \/ Len(a) = 3 /\ a[1] \in RegNames /\ a[2] = ":" /\ a[3] \in Ports
    /\ \A i \in 1..Len(t) : t[i] \notin IllegalText

\* mutant: the default scheme is added only when the scheme is missing
ParseAddress_SchemeOnly(v) ==
    IF v.kind # "str"
    THEN [fault |-> "InvalidParameterValue", toks |-> v.toks]
    ELSE LET address == IF UriScheme(v.toks) = ""
                        THEN <<"https", ":", "//">> \o v.toks
                        ELSE v.toks
         IN [fault |-> IF UriIsValid(address) THEN "ok"
                       ELSE "InvalidParameterValue",
             toks |-> address]

\* parse_driver_info, lines 80-96: the address returned and the exception
\* raised; uri_reference raises TypeError for a value that is no string
ParseAddress(v) ==
    IF v.kind # "str"
    THEN [fault |-> "InvalidParameterValue", toks |-> v.toks]
    ELSE LET address == IF \/ UriScheme(v.toks) = ""
                           \/ UriAuthority(v.toks) = <<>>
                        THEN <<"https", ":", "//">> \o v.toks
                        ELSE v.toks
         IN [fault |-> IF UriIsValid(address) THEN "ok"
                       ELSE "InvalidParameterValue",
             toks |-> address]

\* oslo_utils.strutils: TRUE_STRINGS and FALSE_STRINGS, and the lower case
\* of the texts used here
TRUE_STRINGS == {"1", "t", "true", "on", "y", "yes"}
FALSE_STRINGS == {"0", "f", "false", "off", "n", "no"}
Lower(w) ==
    CASE w = "True" -> "true"
      [] w = "YES" -> "yes"
      [] w = "On" -> "on"
      [] w = "T" -> "t"
      [] w = "FALSE" -> "false"
      [] w = "No" -> "no"
      [] w = "oFF" -> "off"
      [] w = "N" -> "n"
      [] OTHER -> w

\* strutils.bool_from_string(subject, strict=True)
BoolFromString(w) ==
    IF Lower(w) \in TRUE_STRINGS THEN "True"
    ELSE IF Lower(w) \in FALSE_STRINGS THEN "False"
    ELSE "ValueError"

\* mutant: the vocabulary is tried before the path
ParseVerifyCa_BoolFirst(v) ==
    CASE v.kind = "absent" -> [fault |-> "ok", value |-> BoolVal(TRUE)]
      [] v.kind = "str" ->
            IF BoolFromString(Join(v.toks)) # "ValueError"
            THEN [fault |-> "ok",
                  value |-> BoolVal(BoolFromString(Join(v.toks)) = "True")]
            ELSE IF Join(v.toks) \in files
            THEN [fault |-> "ok", value |-> v]
            ELSE [fault |-> "InvalidParameterValue", value |-> v]
      [] v.kind = "bool" -> [fault |-> "ok", value |-> v]
      [] OTHER -> [fault |-> "InvalidParameterValue", value |-> v]

\* parse_driver_info, lines 98-121: verify_ca and the exception raised;
\* files holds the paths for which os.path.isdir or os.path.isfile is true
ParseVerifyCa(v) ==
    CASE v.kind = "absent" -> [fault |-> "ok", value |-> BoolVal(TRUE)]
      [] v.kind = "str" ->
            IF Join(v.toks) \in files
            THEN [fault |-> "ok", value |-> v]
            ELSE IF BoolFromString(Join(v.toks)) = "ValueError"
            THEN [fault |-> "InvalidParameterValue", value |-> v]
            ELSE [fault |-> "ok",
                  value |-> BoolVal(BoolFromString(Join(v.toks)) = "True")]
      [] v.kind = "bool" -> [fault |-> "ok", value |-> v]
      [] OTHER -> [fault |-> "InvalidParameterValue", value |-> v]

\* the dictionary parse_driver_info returns, lines 122-127, as the session
\* cache sees it: Python strings, and verify_ca a boolean or a path
Returned_info(node, address, verify_ca) ==
    Info(Join(address),
         Join(node.ibmc_username.toks),
         Join(node.ibmc_password.toks),
         IF verify_ca.kind = "bool" THEN verify_ca.toks = <<"True">>
         ELSE Join(verify_ca.toks))

\* mutant: nothing is validated
ParseDriverInfo_Lenient(node) ==
    [fault |-> "ok", param |-> "none",
     address |-> node.ibmc_address.toks,
     verify_ca |-> node.ibmc_verify_ca,
     info |-> Returned_info(node, node.ibmc_address.toks,
                            node.ibmc_verify_ca)]

\* parse_driver_info, lines 62-127: the exception raised, if any, with the
\* property its message names, and the values returned
ParseDriverInfo(node) ==
    LET a == ParseAddress(node.ibmc_address)
        v == ParseVerifyCa(node.ibmc_verify_ca)
    IN [fault |-> IF MissingInfo(node) THEN "MissingParameterValue"
                  ELSE IF a.fault # "ok" THEN a.fault
                  ELSE v.fault,
        param |-> IF MissingInfo(node) THEN "missing_info"
                  ELSE IF a.fault # "ok" THEN "ibmc_address"
                  ELSE IF v.fault # "ok" THEN "ibmc_verify_ca"
                  ELSE "none",
        address |-> a.toks,
        verify_ca |-> v.value,
        info |-> Returned_info(node, a.toks, v.value)]

\* nothing parsed yet; n counts the calls, first is the address the first
\* call returned
NoParsed ==
    [fault |-> "none", param |-> "none", address |-> <<>>,
     verify_ca |-> Absent, n |-> 0, first |-> <<>>]

\* what a call of parse_driver_info leaves in parsed
Outcome(r, n, first) ==
    [fault |-> r.fault, param |-> r.param, address |-> r.address,
     verify_ca |-> r.verify_ca, n |-> n, first |-> first]

\* parse_driver_info(node)
Parse ==
    /\ parsed.n = 0
    /\ LET r == ParseDriverInfo(driver_info)
       IN parsed' = Outcome(r, 1, r.address)
    /\ UNCHANGED <<driver_info, files>>
    /\ UNCHANGED <<reqVars, cacheVars, op, taskVars, sysVars>>

\* parse_driver_info once more, on the node with the address the first
\* call returned as its ibmc_address
ParseAgain ==
    /\ parsed.n = 1
    /\ parsed.fault = "ok"
    /\ LET node == [driver_info EXCEPT
                       !.ibmc_address = StrVal(parsed.address)]
       IN parsed' = Outcome(ParseDriverInfo(node), 2, parsed.first)
    /\ UNCHANGED <<driver_info, files>>
    /\ UNCHANGED <<reqVars, cacheVars, op, taskVars, sysVars>>

\* the values of ibmc_address that are explored
Addresses ==
    {Absent, Null, IntVal("0"), IntVal("42"), StrVal(<<>>),
     StrVal(<<"https", ":", "//", "example.com">>),
     StrVal(<<"http", ":", "//", "example.com">>),
     StrVal(<<"https", ":", "//", "example.com", ":", "42">>),
     StrVal(<<"https", ":", "//", "example.com", "/", "redfish">>),
     StrVal(<<"https", ":", "//", "exa mple.com">>),
     StrVal(<<"example.com">>),
     StrVal(<<"example.com", ":", "42">>),
     StrVal(<<"example.com", "/", "redfish">>),
     StrVal(<<"https", ":", "example.com">>),
     StrVal(<<"//", "example.com">>),
     StrVal(<<"/", "banana!">>)}

\* the values of ibmc_username and ibmc_password that are explored
Credentials == {Absent, Null, StrVal(<<>>), StrVal(<<"foo">>)}

\* the values of ibmc_verify_ca that are explored
VerifyCaTexts ==
    TRUE_STRINGS \cup FALSE_STRINGS
        \cup {"True", "YES", "On", "T", "FALSE", "No", "oFF", "N"}
        \cup {"xyz", "*", "!123", "123"}
        \cup {"/path/to/a/valid/CA", "/path/to/a/valid/CA.pem"}
VerifyCas ==
    {Absent, Null, BoolVal(TRUE), BoolVal(FALSE), IntVal("123456"),
     StrVal(<<>>)}
        \cup {StrVal(<<w>>) : w \in VerifyCaTexts}

\* the paths that may exist: the two of the tests, and a file named like
\* a word of the vocabulary
Paths == {"/path/to/a/valid/CA", "/path/to/a/valid/CA.pem", "true"}

\* node.driver_info of the nodes operated on: two nodes of different
\* controllers, the first of them once more with another password, one
\* without username and one whose address is no URI
Nodes ==
    {DriverInfo(StrVal(<<"https", ":", "//", "bmc.foo">>), StrVal(<<"foo">>),
                StrVal(<<"pw1">>), BoolVal(TRUE)),
     DriverInfo(StrVal(<<"https", ":", "//", "bmc.bar">>), StrVal(<<"foo">>),
                StrVal(<<"pw1">>), BoolVal(TRUE)),
     DriverInfo(StrVal(<<"https", ":", "//", "bmc.foo">>), StrVal(<<"foo">>),
                StrVal(<<"pw2">>), BoolVal(TRUE)),
     DriverInfo(StrVal(<<"https", ":", "//", "bmc.foo">>), StrVal(<<>>),
                StrVal(<<"pw1">>), BoolVal(TRUE)),
     DriverInfo(StrVal(<<"/", "banana!">>), StrVal(<<"foo">>),
                StrVal(<<"pw1">>), BoolVal(TRUE))}

\* How the requests of one step end when they fail, as SpecReq explores
\* it: a RequestException without response or with the status of the last
\* answer, an IBMCError (status >= 500, missing field or entity tag), and
\* after a 401 the failed renewal: on a connector whose session is set the
\* 401 of the re-send or the exhausted recursion of create(), on one whose
\* session is not set yet the AttributeError of line 287.
ExecFailures(set) ==
    {Exc("RequestException", st) : st \in {NoResponse, 400, 403, 404}}
    \cup {Exc("IBMCError", 0)}
    \cup (IF set
          THEN {Exc("RequestException", 401), Exc("RecursionError", 0)}
          ELSE {Exc("AttributeError", 0)})

ExecOk ==
    Value([status |-> 200, etag |-> NoEtag, field |-> TRUE,
           token |-> NoToken, timeout |-> NoTimeout])

\* the error that reaches the caller of a driver operation: its class,
\* whether its message names the node, whether it embeds the cause
Error(type, node, cause) == [type |-> type, node |-> node, cause |-> cause]
NoError == Error("none", FALSE, FALSE)
Success == Error("ok", FALSE, FALSE)

\* _get_system, lines 191-208: the exception get_system raises for e
GetSystemError(e) ==
    IF e.type = "RequestException"
    THEN IF e.status # NoResponse /\ e.status = 404
         THEN Error("IBMCError", FALSE, TRUE)
         ELSE Error("IBMCConnectionError", TRUE, TRUE)
    ELSE Error(e.type, FALSE, FALSE)

\* mutant: the exception of the requests library is not caught
ActionError_Raw(e) == Error(e.type, FALSE, FALSE)

\* power.py lines 76-81 and 111-116, management.py lines 75-80, 161-166
\* and 209-214, vendor.py lines 74-79
ActionError(e) ==
    IF e.type = "RequestException"
    THEN Error("IBMCError", TRUE, TRUE)
    ELSE Error(e.type, FALSE, FALSE)

\* JSON null (Python's None), and a name that is not in the JSON
None == "None"
Missing == "missing"

\* the snapshot IBMCSystem.get keeps (lines 485-496): power state, the
\* fields BootSourceOverrideTarget, BootSourceOverrideEnabled and
\* BootSourceOverrideMode of Boot, and whether the vendor boot-up sequence
\* is present
Snapshot(ps, target, enabled, mode, seq) ==
    [ps |-> ps, target |-> target, enabled |-> enabled, mode |-> mode,
     seq |-> seq]
NoSnapshot == Snapshot("Other", None, None, None, FALSE)

\* the values of Boot that are told apart: the name is not there, null,
\* the empty string, and constants of constants.py
BootTargets ==
    {Missing, None, "", "BOOT_SOURCE_TARGET_NONE", "BOOT_SOURCE_TARGET_HDD",
     "BOOT_SOURCE_TARGET_PXE"}
BootEnableds ==
    {Missing, None, "BOOT_SOURCE_ENABLED_DISABLED",
     "BOOT_SOURCE_ENABLED_ONCE", "BOOT_SOURCE_ENABLED_CONTINUOUS"}
BootSourceModes == {Missing, "BOOT_SOURCE_MODE_UEFI"}

\* the snapshots told apart for operation o: each field varies for the
\* operations that read it
Snapshots(o) ==
    {Snapshot(ps, t, e, m, q) :
        ps \in IF o.inWait \/ o.name \in {"get_power_state", "reboot"}
               THEN SystemPowerStates ELSE {"SYSTEM_POWER_STATE_ON"},
        t \in IF o.name = "set_boot_mode" /\ ~o.inWait THEN BootTargets
              ELSE {"BOOT_SOURCE_TARGET_HDD"},
        e \in IF o.name = "set_boot_mode" /\ ~o.inWait THEN BootEnableds
              ELSE {"BOOT_SOURCE_ENABLED_ONCE"},
        m \in IF o.name = "set_boot_mode" /\ ~o.inWait THEN BootSourceModes
              ELSE {"BOOT_SOURCE_MODE_UEFI"},
        q \in IF o.name = "boot_up_seq" THEN BOOLEAN ELSE {TRUE}}

\* mappings.py, lines 41-50: BOOT_DEVICE_MAP_REV[device]
BOOT_DEVICE_MAP_REV(device) ==
    CASE device = "pxe" -> "BOOT_SOURCE_TARGET_PXE"
      [] device = "cdrom" -> "BOOT_SOURCE_TARGET_CD"
      [] device = "disk" -> "BOOT_SOURCE_TARGET_HDD"
      [] device = "bios" -> "BOOT_SOURCE_TARGET_BIOS_SETUP"
      [] OTHER -> None

\* mappings.py, lines 53-58: BOOT_MODE_MAP_REV[mode]
BOOT_MODE_MAP_REV(mode) ==
    CASE mode = "bios" -> "BOOT_SOURCE_MODE_BIOS"
      [] mode = "uefi" -> "BOOT_SOURCE_MODE_UEFI"
      [] OTHER -> None

\* mappings.py, lines 61-67: BOOT_DEVICE_PERSISTENT_MAP_REV[persistent]
BOOT_DEVICE_PERSISTENT_MAP_REV(persistent) ==
    IF persistent THEN "BOOT_SOURCE_ENABLED_CONTINUOUS"
    ELSE "BOOT_SOURCE_ENABLED_ONCE"

\* set_system_boot_source, utils.py lines 528-535: the JSON of the PATCH;
\* BootSourceOverrideMode is left out (None here) when no mode is given
BootSource(device, enabled, mode) ==
    [target |-> device, enabled |-> enabled, mode |-> mode]
NoBody == BootSource(None, None, None)

\* management.py lines 141 and 149: "not boot_device", "not boot_override"
BootSet(v) == v \notin {None, ""}

\* mutant: set_boot_mode leaves the override policy to the default of
\* set_system_boot_source
BootPayload_DefaultEnabled(o) ==
    IF o.name = "set_boot_device"
    THEN BootSource(BOOT_DEVICE_MAP_REV(o.arg),
                    BOOT_DEVICE_PERSISTENT_MAP_REV(FALSE), None)
    ELSE BootSource(o.sys.target, "BOOT_SOURCE_ENABLED_ONCE",
                    BOOT_MODE_MAP_REV(o.arg))

\* the arguments of set_system_boot_source: set_boot_device, management.py
\* lines 72-74 (persistent has its default, False), and set_boot_mode,
\* lines 157-160
BootPayload(o) ==
    IF o.name = "set_boot_device"
    THEN BootSource(BOOT_DEVICE_MAP_REV(o.arg),
                    BOOT_DEVICE_PERSISTENT_MAP_REV(FALSE), None)
    ELSE BootSource(o.sys.target, o.sys.enabled, BOOT_MODE_MAP_REV(o.arg))

\* no operation yet.  phase: "validate" (self.validate), "enter"
\* (get_system up to the cache lookup), "construct", "fetch"
\* (conn.get_system), "act" (the rest of the operation), "wait" and
\* "polled" (node_wait_for_power_state), "done".
NoOp ==
    [name |-> "none", node |-> NoNode, arg |-> "none", phase |-> "idle",
     n |-> 0,               \* operations started so far
     inWait |-> FALSE,      \* inside node_wait_for_power_state
     conn |-> NoService,    \* the connector of the IBMCSystem in use
     sys |-> NoSnapshot,    \* the snapshot of the operation's IBMCSystem
     target |-> "none",     \* the state waited for
     seen |-> "none",       \* the power state read last
     resets |-> <<>>,       \* reset types of the reset_system calls
     patches |-> 0,         \* set_system_boot_source calls
     body |-> NoBody,       \* the JSON of the last of them
     polls |-> 0,           \* completed polls of the wait
     reqs |-> FALSE,        \* a request was sent to the controller
     result |-> NoError,    \* what the operation ended with
     cause |-> NoRet,       \* the exception that made it fail
     stage |-> "none",      \* the step that raised it
     before |-> <<>>,       \* SessionCache.sessions when it was called
     beforeConn |-> 0,
     logins |-> {}]         \* the passwords of the logins it performed

opFrame ==
    <<reqVars, pc, cur, held, pend, chist, taskVars, parseVars, sysVars>>

\* the operation ends with error r, caused by e at the given step
OpFailed(o, r, e, stage) ==
    [o EXCEPT !.phase = "done", !.result = r, !.cause = e, !.stage = stage]

\* a driver operation is called on a node
OpCall(name, node, arg) ==
    /\ op.phase \in {"idle", "done"}
    /\ op.n < MaxOps
    /\ op' = [NoOp EXCEPT !.name = name, !.node = node, !.arg = arg,
                          !.phase = "validate", !.n = op.n + 1,
                          !.before = sessions, !.beforeConn = nextConn]
    /\ UNCHANGED <<sessions, nextConn>>
    /\ UNCHANGED opFrame

\* self.validate(task): power.py line 43, management.py line 37,
\* vendor.py line 46
OpValidate ==
    /\ op.phase = "validate"
    /\ LET p == ParseDriverInfo(op.node) IN
       IF p.fault # "ok"
       THEN op' = OpFailed(op, Error(p.fault, TRUE, FALSE), NoRet, "validate")
       ELSE op' = [op EXCEPT !.phase = "enter"]
    /\ UNCHANGED <<sessions, nextConn>>
    /\ UNCHANGED opFrame

\* get_system, lines 182-188, and SessionCache.__enter__, line 145
OpEnter ==
    /\ op.phase = "enter"
    /\ LET p == ParseDriverInfo(op.node)
           i == IndexOf(sessions, SessionKey(p.info))
       IN IF p.fault # "ok"
          THEN op' = OpFailed(op, Error(p.fault, TRUE, FALSE), NoRet, "enter")
          ELSE IF i # 0
          THEN op' = [op EXCEPT !.phase = "fetch", !.conn = sessions[i].conn]
          ELSE op' = [op EXCEPT !.phase = "construct"]
    /\ UNCHANGED <<sessions, nextConn>>
    /\ UNCHANGED opFrame

\* __enter__, lines 148-159: IBMCService.__init__ sends the root-service
\* GET and logs in on a connector without session; then the oldest entry
\* is expired and the service inserted.  An exception leaves __enter__
\* (no __exit__ runs) and reaches the handler of _get_system.
OpConstruct ==
    /\ op.phase = "construct"
    /\ LET di == ParseDriverInfo(op.node).info IN
       \E r \in {ExecOk} \cup ExecFailures(FALSE) :
          IF r.k = "val"
          THEN /\ nextConn' = nextConn + 1
               /\ sessions' = SetItem(ExpiredOldest(sessions), SessionKey(di),
                                      Service(nextConn + 1, di))
               /\ op' = [op EXCEPT !.phase = "fetch", !.reqs = TRUE,
                                   !.conn = Service(nextConn + 1, di),
                                   !.logins = @ \cup {di.password}]
          ELSE /\ \E sent \in BOOLEAN :
                    op' = OpFailed([op EXCEPT
                                      !.reqs = TRUE,
                                      !.logins = IF sent
                                                 THEN @ \cup {di.password}
                                                 ELSE @],
                                   GetSystemError(r), r, "construct")
               /\ UNCHANGED <<sessions, nextConn>>
    /\ UNCHANGED opFrame

\* IBMCSession.create, lines 392-396: the login POST carries the username
\* and the password the IBMCSession was built with (lines 373-381), which
\* are those of the driver_info that constructed the IBMCService
RenewalPassword(conn) == conn.info.password

\* make_req on the cached connector is answered 401, the session has
\* expired: renew_ibmc_session (lines 285-290) calls
\* self._ibmc_session.create(), which logs in again; the request is then
\* sent again, which is the step that follows
OpRenew ==
    /\ op.phase \in {"fetch", "act"}
    /\ RenewalPassword(op.conn) \notin op.logins
    /\ op' = [op EXCEPT
                !.reqs = TRUE,
                !.logins = @ \cup {RenewalPassword(op.conn)}]
    /\ UNCHANGED <<sessions, nextConn>>
    /\ UNCHANGED opFrame

\* _get_system, line 189: conn.get_system builds the IBMCSystem (lines
\* 439-466), then __exit__ (lines 161-165) and the handler of _get_system
OpFetch ==
    /\ op.phase = "fetch"
    /\ LET di == ParseDriverInfo(op.node).info IN
       \E r \in {ExecOk} \cup ExecFailures(TRUE) :
          IF r.k = "val"
          THEN /\ \E snap \in Snapshots(op) :
                    op' = IF op.inWait
                          THEN [op EXCEPT !.phase = "polled", !.reqs = TRUE,
                                  !.seen = GET_POWER_STATE_MAP(snap.ps)]
                          ELSE [op EXCEPT !.phase = "act", !.reqs = TRUE,
                                  !.sys = snap]
               /\ sessions' = sessions
          ELSE /\ sessions' = IF GivesUpService(r.type)
                              THEN PopKey(sessions, SessionKey(di))
                              ELSE sessions
               /\ op' = OpFailed([op EXCEPT !.reqs = TRUE],
                                GetSystemError(r), r, "fetch")
    /\ UNCHANGED nextConn
    /\ UNCHANGED opFrame

\* get_power_state, line 57
OpRead ==
    /\ op.phase = "act" /\ op.name = "get_power_state"
    /\ op' = [op EXCEPT !.phase = "done", !.result = Success,
                        !.seen = GET_POWER_STATE_MAP(op.sys.ps)]
    /\ UNCHANGED <<sessions, nextConn>>
    /\ UNCHANGED opFrame

\* the reset type and the state waited for: set_power_state lines 74-75
\* and 83, reboot lines 100-110 and 118, inject_nmi line 208 (no wait)
ResetOf(o) ==
    CASE o.name = "set_power_state" ->
           [signal |-> SET_POWER_STATE_MAP_REV(o.arg),
            target |-> TargetState(o.arg)]
      [] o.name = "reboot" ->
           [signal |-> RebootSignal(GET_POWER_STATE_MAP(o.sys.ps)),
            target |-> "POWER_ON"]
      [] OTHER -> [signal |-> "RESET_NMI", target |-> "none"]

\* set_power_state lines 73-83, reboot lines 104-116, inject_nmi lines
\* 207-214: system.reset_system (utils.py lines 546-555) in its handler
OpReset ==
    /\ op.phase = "act"
    /\ op.name \in {"set_power_state", "reboot", "inject_nmi"}
    /\ LET o == [op EXCEPT !.resets = Append(@, ResetOf(op).signal),
                           !.reqs = TRUE]
       IN \E r \in {ExecOk} \cup ExecFailures(TRUE) :
             IF r.k # "val"
             THEN op' = OpFailed(o, ActionError(r), r, "reset")
             ELSE IF op.name = "inject_nmi"
             THEN op' = [o EXCEPT !.phase = "done", !.result = Success]
             ELSE op' = [o EXCEPT !.phase = "wait",
                                  !.target = ResetOf(op).target]
    /\ UNCHANGED <<sessions, nextConn>>
    /\ UNCHANGED opFrame

\* set_boot_device lines 71-80, set_boot_mode lines 140-166: the property
\* boot (utils.py lines 498-510) raises IBMCError for a name that is not in
\* Boot; then system.set_system_boot_source (utils.py lines 517-538, the entity-tag
\* GET and the PATCH) in its handler
OpPatch ==
    /\ op.phase = "act"
    /\ op.name \in {"set_boot_device", "set_boot_mode"}
    /\ IF /\ op.name = "set_boot_mode"
          /\ Missing \in {op.sys.mode, op.sys.target, op.sys.enabled}
       THEN op' = OpFailed(op, Error("IBMCError", FALSE, FALSE), NoRet,
                          "check")
       ELSE IF /\ op.name = "set_boot_mode"
               /\ ~(BootSet(op.sys.target) /\ BootSet(op.sys.enabled))
       THEN op' = OpFailed(op, Error("IBMCError", TRUE, FALSE), NoRet, "check")
       ELSE LET o == [op EXCEPT !.patches = @ + 1, !.reqs = TRUE,
                                !.body = BootPayload(op)] IN
            \E r \in {ExecOk} \cup ExecFailures(TRUE) :
               IF r.k # "val"
               THEN op' = OpFailed(o, ActionError(r), r, "patch")
               ELSE op' = [o EXCEPT !.phase = "done", !.result = Success]
    /\ UNCHANGED <<sessions, nextConn>>
    /\ UNCHANGED opFrame

\* boot_up_seq, lines 71-79: system.boot_sequence (utils.py lines 557-569)
\* reads the BIOS resource when the snapshot has no boot-up sequence
OpBootSeq ==
    /\ op.phase = "act" /\ op.name = "boot_up_seq"
    /\ IF op.sys.seq
       THEN op' = [op EXCEPT !.phase = "done", !.result = Success]
       ELSE \E r \in {ExecOk} \cup ExecFailures(TRUE) :
               IF r.k # "val"
               THEN op' = OpFailed([op EXCEPT !.reqs = TRUE],
                                  ActionError(r), r, "bios")
               ELSE op' = [op EXCEPT !.phase = "done", !.reqs = TRUE,
                                     !.result = Success]
    /\ UNCHANGED <<sessions, nextConn>>
    /\ UNCHANGED opFrame

\* node_wait_for_power_state (power.py lines 84-85 and 118-119) calls
\* task.driver.power.get_power_state once more
OpPoll ==
    /\ op.phase = "wait"
    /\ op.polls < MaxPolls
    /\ op' = [op EXCEPT !.phase = "validate", !.inWait = TRUE]
    /\ UNCHANGED <<sessions, nextConn>>
    /\ UNCHANGED opFrame

\* node_wait_for_power_state compares the state read with the target
OpCompare ==
    /\ op.phase = "polled"
    /\ op' = [op EXCEPT !.polls = @ + 1,
                        !.phase = IF op.seen = op.target
                                  THEN "done" ELSE "wait",
                        !.result = IF op.seen = op.target
                                   THEN Success ELSE @]
    /\ UNCHANGED <<sessions, nextConn>>
    /\ UNCHANGED opFrame

\* node_wait_for_power_state: the timeout passed after a poll that did not
\* find the target state
OpTimeout ==
    /\ op.phase = "wait"
    /\ op.polls >= 1
    /\ op' = [op EXCEPT !.phase = "done",
                        !.result = Error("PowerStateFailure", FALSE, FALSE)]
    /\ UNCHANGED <<sessions, nextConn>>
    /\ UNCHANGED opFrame

\* the arguments of an operation: the power state of set_power_state,
\* the device of set_boot_device, the mode of set_boot_mode
OpArgs(name) ==
    CASE name = "set_power_state" -> PowerStates
      [] name = "set_boot_device" -> {"pxe", "disk"}
      [] name = "set_boot_mode" -> {"uefi", "bios"}
      [] OTHER -> {"none"}

(***************************************************************************)
(* Tasks.  The conductor calls every interface method with a task that     *)
(* holds a lock on its node: a shared lock, which any number of tasks may  *)
(* hold, or the exclusive lock, which reserves the node.  The methods      *)
(* decorated with task_manager.require_exclusive_lock run their body only  *)
(* for a task that is not shared.                                          *)
(***************************************************************************)
\* the nodes the tasks work on
TaskNodes == {"node1", "node2"}

\* the methods of IBMCPower, IBMCManagement and IBMCVendor that talk to the
\* controller
InterfaceOps == OpNames \cup {"get_boot_device", "get_boot_mode"}

\* mutant: inject_nmi is not decorated
RequiresExclusiveLock_NotNmi(name) ==
    name \in {"set_power_state", "reboot", "set_boot_device",
              "set_boot_mode"}

\* the methods decorated with @task_manager.require_exclusive_lock:
\* power.py lines 59 and 87, management.py lines 53, 123 and 193
RequiresExclusiveLock(name) ==
    name \in {"set_power_state", "reboot", "set_boot_device",
              "set_boot_mode", "inject_nmi"}

\* a task: phase is "idle" (no task), "acquired" (the lock is taken),
\* "run" (the body of the method runs and sends its requests) or "done";
\* ran: the body of the method was entered
NoTask ==
    [node |-> "none", shared |-> TRUE, name |-> "none", phase |-> "idle",
     result |-> "none", ran |-> FALSE]

\* task_manager.acquire(context, node_uuid, shared=...): a shared lock is
\* always granted, the exclusive lock only while nobody holds the node's
\* reservation
TaskAcquire(c, node, shared) ==
    /\ tasks[c].phase = "idle"
    /\ shared \/ reservation[node] = "none"
    /\ tasks' = [tasks EXCEPT ![c] = [NoTask EXCEPT !.node = node,
                                                    !.shared = shared,
                                                    !.phase = "acquired"]]
    /\ reservation' = IF shared THEN reservation
                      ELSE [reservation EXCEPT ![node] = c]
    /\ UNCHANGED <<reqVars, cacheVars, op, parseVars, sysVars>>

\* the call of an interface method: the wrapper of require_exclusive_lock
\* raises ExclusiveLockRequired for a shared task before the body runs
TaskCall(c, name) ==
    /\ tasks[c].phase = "acquired"
    /\ tasks[c].name = "none"
    /\ tasks' = [tasks EXCEPT ![c] =
                    IF RequiresExclusiveLock(name) /\ tasks[c].shared
                    THEN [@ EXCEPT !.name = name, !.phase = "done",
                                   !.result = "ExclusiveLockRequired"]
                    ELSE [@ EXCEPT !.name = name, !.phase = "run",
                                   !.ran = TRUE]]
    /\ UNCHANGED <<reqVars, cacheVars, op, reservation, parseVars, sysVars>>

\* the body of the method returns or raises
TaskReturn(c) ==
    /\ tasks[c].phase = "run"
    /\ \E r \in {"ok", "error"} :
          tasks' = [tasks EXCEPT ![c] = [@ EXCEPT !.phase = "done",
                                                  !.result = r]]
    /\ UNCHANGED <<reqVars, cacheVars, op, reservation, parseVars, sysVars>>

\* the end of the with-block of task_manager.acquire: the lock is released
TaskRelease(c) ==
    /\ tasks[c].phase = "done"
    /\ tasks' = [tasks EXCEPT ![c] = NoTask]
    /\ reservation' = [n \in TaskNodes |->
                          IF reservation[n] = c THEN "none"
                          ELSE reservation[n]]
    /\ UNCHANGED <<reqVars, cacheVars, op, parseVars, sysVars>>

(***************************************************************************)
(* IBMCSystem.  The object is built by IBMCService.get_system with the     *)
(* connector, the ibmc_system_id of the node (None when not given), the    *)
(* address and the path of the systems collection.  Every make_req is one  *)
(* step that returns the controller's JSON or raises.                      *)
(***************************************************************************)
SysAddress == "https://bmc.foo"
SystemsPath == "/redfish/v1/Systems"
MemberIds == {"/redfish/v1/Systems/1", "/redfish/v1/Systems/2"}
ResetPath == "/redfish/v1/Systems/1/Actions/ComputerSystem.Reset"
BiosPath == "/redfish/v1/Systems/1/Bios"

\* the field Oem/Huawei/BootupSequence: not there, or a list
NoSeq == [has |-> FALSE, v |-> <<>>]
BootupSeq(v) == [has |-> TRUE, v |-> v]

\* the JSON of the system resource: PowerState, Boot, the target of
\* Actions/#ComputerSystem.Reset, Bios/@odata.id and
\* Oem/Huawei/BootupSequence; Missing for a field that is not there
Resource(ps, boot, target, bios, seq) ==
    [PowerState |-> ps, Boot |-> boot, target |-> target, Bios |-> bios,
     BootupSequence |-> seq]
NoJson == Resource(Missing, Missing, Missing, Missing, NoSeq)
Resources ==
    {Resource(ps, "Hdd", ResetPath, bios, seq) :
        ps \in {"On", "Off"}, bios \in {BiosPath, Missing},
        seq \in {NoSeq, BootupSeq(<<>>),
                 BootupSeq(<<"Pxe", "Hdd", "Others">>)}}
    \cup {Resource(Missing, "Hdd", ResetPath, BiosPath, NoSeq),
          Resource("On", Missing, ResetPath, BiosPath, NoSeq),
          Resource("On", "Hdd", Missing, BiosPath, NoSeq)}

\* the JSON of the BIOS resource: Attributes, a dictionary held as the
\* sequence of its items in the order of the document, or not there; a key
\* is held as its name and its number ("BootTypeOrder0" as
\* <<"BootTypeOrder", "0">>)
Item(name, number, value) == [key |-> <<name, number>>, value |-> value]
NoAttributes == [has |-> FALSE, items |-> <<>>]
Attributes(items) == [has |-> TRUE, items |-> items]
BiosResources ==
    {NoAttributes,
     Attributes(<<>>),
     Attributes(<<Item("QuietBoot", "", "Enabled")>>),
     Attributes(<<Item("BootTypeOrder", "1", "DVDROMDrive"),
                  Item("QuietBoot", "", "Enabled"),
                  Item("BootTypeOrder", "0", "HardDiskDrive"),
                  Item("boottypeorder", "2", "PXE"),
                  Item("BootTypeOrder", "3", "Others")>>),
     Attributes(<<Item("BootTypeOrder", "1", "PXE"),
                  Item("BootTypeOrder", "0", "PXE")>>)}

\* the snapshot fields of the object, lines 450-455
Fields(json, ps, boot, reset, bios) ==
    [json |-> json, power_state |-> ps, boot |-> boot, reset_path |-> reset,
     bios_path |-> bios]
NoFields == Fields(NoJson, None, None, None, None)

\* phase: "none" (not built), "get" (__init__ is about to call get()),
\* "ready" or "failed" (__init__ raised); id: the id given; log: the
\* requests sent; gets: the get() calls that returned; first: the fields
\* after the first of them; same: the system resource did not change since
\* then; asked: boot_sequence was read; seq: what it returned; exc: what
\* the last call raised
NoSystem ==
    [phase |-> "none", id |-> None, real_id |-> None, f |-> NoFields,
     log |-> <<>>, gets |-> 0, first |-> NoFields, same |-> TRUE,
     asked |-> FALSE, seq |-> <<>>, exc |-> "none"]

\* the controller: the Members of the systems collection (their
\* @odata.id), the system resource and the BIOS resource
Remote(members, res, bios) ==
    [members |-> members, res |-> res, bios |-> bios]
NoRemote == Remote(<<>>, NoJson, NoAttributes)
Remotes ==
    {Remote(members, res, bios) :
        members \in {<<>>, <<"/redfish/v1/Systems/1">>,
                     <<"/redfish/v1/Systems/2", "/redfish/v1/Systems/1">>},
        res \in Resources, bios \in BiosResources}

\* the ibmc_system_id given: none, the empty string or an id
GivenIds == {None, "", "/redfish/v1/Systems/1"}

Request(method, url) == [method |-> method, url |-> url]

\* how make_req ends: it returns the response or raises
MakeReqEnds == {"ok", "raise"}

\* mutant: the last member of the collection is taken
FirstMember_Last(members) == members[Len(members)]

\* __init__, line 462: systems[0]['@odata.id']
FirstMember(members) == members[1]

\* IBMCSystem.__init__, lines 439-464, up to the call of get()
SysInit(id) ==
    /\ system.phase = "none"
    /\ IF id \in {None, ""}
       THEN \E e \in MakeReqEnds :
               LET sent == [system EXCEPT
                              !.id = id,
                              !.log = <<Request("GET",
                                                SysAddress \o SystemsPath)>>]
               IN system' =
                    IF e = "raise"
                    THEN [sent EXCEPT !.phase = "failed", !.exc = "make_req"]
                    ELSE IF remote.members = <<>>
                    THEN [sent EXCEPT !.phase = "failed",
                                      !.exc = "IBMCError"]
                    ELSE [sent EXCEPT !.phase = "get",
                                      !.real_id =
                                          FirstMember(remote.members)]
       ELSE system' = [system EXCEPT !.id = id, !.real_id = id,
                                     !.phase = "get"]
    /\ UNCHANGED remote
    /\ UNCHANGED <<reqVars, cacheVars, op, taskVars, parseVars>>

\* mutant: a refresh that finds the JSON it holds already takes the answer
\* for "not modified" and loads the fields from an empty body
Loaded_NotModified(f, json) ==
    IF f.json = json
    THEN [exc |-> "none", f |-> Fields(json, None, None, None, None)]
    ELSE IF json.PowerState = Missing
    THEN [exc |-> "IBMCError", f |-> [f EXCEPT !.json = json]]
    ELSE IF json.Boot = Missing
    THEN [exc |-> "IBMCError",
          f |-> [f EXCEPT !.json = json, !.power_state = json.PowerState]]
    ELSE IF json.target = Missing
    THEN [exc |-> "IBMCError",
          f |-> [f EXCEPT !.json = json, !.power_state = json.PowerState,
                          !.boot = json.Boot]]
    ELSE [exc |-> "none",
          f |-> Fields(json, json.PowerState, json.Boot, json.target,
                       IF json.Bios = Missing THEN None ELSE json.Bios)]

\* get, lines 488-496: the fields are assigned one after the other from the
\* JSON of the answer; a missing PowerState, Boot or reset target raises
\* IBMCError and leaves the fields after it as they were; a missing Bios
\* path gives None
Loaded(f, json) ==
    IF json.PowerState = Missing
    THEN [exc |-> "IBMCError", f |-> [f EXCEPT !.json = json]]
    ELSE IF json.Boot = Missing
    THEN [exc |-> "IBMCError",
          f |-> [f EXCEPT !.json = json, !.power_state = json.PowerState]]
    ELSE IF json.target = Missing
    THEN [exc |-> "IBMCError",
          f |-> [f EXCEPT !.json = json, !.power_state = json.PowerState,
                          !.boot = json.Boot]]
    ELSE [exc |-> "none",
          f |-> Fields(json, json.PowerState, json.Boot, json.target,
                       IF json.Bios = Missing THEN None ELSE json.Bios)]

\* IBMCSystem.get, lines 485-496, called by __init__ (line 466) and by
\* whoever refreshes the object
SysGet ==
    /\ system.phase \in {"get", "ready"}
    /\ Len(system.log) <= MaxGets
    /\ \E e \in MakeReqEnds :
          LET sent == [system EXCEPT
                         !.log = Append(@, Request("GET",
                                     SysAddress \o system.real_id))]
              l == Loaded(system.f, remote.res)
              exc == IF e = "raise" THEN "make_req" ELSE l.exc
              f == IF e = "raise" THEN system.f ELSE l.f
          IN system' =
               IF exc # "none"
               THEN [sent EXCEPT !.f = f, !.exc = exc,
                                 !.phase = IF system.phase = "get"
                                           THEN "failed" ELSE "ready"]
               ELSE [sent EXCEPT !.f = f, !.exc = "none", !.phase = "ready",
                                 !.gets = @ + 1,
                                 !.first = IF system.gets = 0 THEN f ELSE @,
                                 !.same = IF system.gets = 0 THEN TRUE ELSE @]
    /\ UNCHANGED remote
    /\ UNCHANGED <<reqVars, cacheVars, op, taskVars, parseVars>>

\* somebody else switches the machine on or off
RemoteChange ==
    /\ remote.res.PowerState \in {"On", "Off"}
    /\ remote' = [remote EXCEPT
                    !.res.PowerState = IF @ = "On" THEN "Off" ELSE "On"]
    /\ system' = [system EXCEPT !.same = FALSE]
    /\ UNCHANGED <<reqVars, cacheVars, op, taskVars, parseVars>>

\* the controller stops reporting PowerState, Boot or the reset action of
\* the system resource
RemoteDrop(name) ==
    /\ remote.res[name] # Missing
    /\ remote' = [remote EXCEPT !.res[name] = Missing]
    /\ system' = [system EXCEPT !.same = FALSE]
    /\ UNCHANGED <<reqVars, cacheVars, op, taskVars, parseVars>>

\* the boot devices and the reset types the object is asked for
SysDevices == {"Pxe", "Hdd"}
SysResetTypes == {"On", "ForceOff"}

\* mutant: a mutation that succeeded forgets the snapshot
Mutation_DropsSnapshot(sys, req, e) ==
    [sys EXCEPT !.log = Append(@, req),
                !.exc = IF e = "raise" THEN "make_req" ELSE "none",
                !.f = IF e = "raise" THEN @ ELSE NoFields]

\* set_system_boot_source, lines 517-538, and reset_system, lines 546-555:
\* one make_req, and no field of the object is assigned
Mutation(sys, req, e) ==
    [sys EXCEPT !.log = Append(@, req),
                !.exc = IF e = "raise" THEN "make_req" ELSE "none"]

\* set_system_boot_source(device): PATCH of the system resource; the
\* controller takes the device over when the request succeeds
SysSetBootSource(device) ==
    /\ system.phase = "ready"
    /\ Len(system.log) <= MaxGets
    /\ \E e \in MakeReqEnds :
          /\ system' = [Mutation(system,
                                 Request("PATCH",
                                         SysAddress \o system.real_id), e)
                          EXCEPT !.same = @ /\ (e = "raise"
                                                \/ remote.res.Boot = device)]
          /\ remote' = IF e = "raise" THEN remote
                       ELSE [remote EXCEPT !.res.Boot = device]
    /\ UNCHANGED <<reqVars, cacheVars, op, taskVars, parseVars>>

\* reset_system(reset_type): POST to the reset action of the snapshot; the
\* controller switches the machine when the request succeeds
SysReset(reset_type) ==
    /\ system.phase = "ready"
    /\ Len(system.log) <= MaxGets
    /\ LET ps == IF reset_type = "On" THEN "On" ELSE "Off" IN
       \E e \in MakeReqEnds :
          /\ system' = [Mutation(system,
                                 Request("POST",
                                         SysAddress \o system.f.reset_path),
                                 e)
                          EXCEPT !.same = @ /\ (e = "raise"
                                                \/ remote.res.PowerState = ps)]
          /\ remote' = IF e = "raise" THEN remote
                       ELSE [remote EXCEPT !.res.PowerState = ps]
    /\ UNCHANGED <<reqVars, cacheVars, op, taskVars, parseVars>>

\* k.lower().startswith('boottypeorder'), line 564
IsBootTypeOrder(key) ==
    key[1] \in {"BootTypeOrder", "boottypeorder", "BOOTTYPEORDER"}

\* the order of Python strings on the keys used here: by code points, so
\* that capital letters come before small ones
NameRank(name) ==
    CASE name = "BOOTTYPEORDER" -> 1
      [] name = "BootTypeOrder" -> 2
      [] name = "QuietBoot" -> 3
      [] OTHER -> 4
NumberRank(number) ==
    CASE number = "" -> 0
      [] number = "0" -> 1
      [] number = "1" -> 2
      [] number = "2" -> 3
      [] OTHER -> 4
KeyLess(k1, k2) ==
    \/ NameRank(k1[1]) < NameRank(k2[1])
    \/ NameRank(k1[1]) = NameRank(k2[1])
          /\ NumberRank(k1[2]) < NumberRank(k2[2])

\* the items whose key is a boot type order, in the order of the
\* dictionary
RECURSIVE BootTypeItems(_)
BootTypeItems(items) ==
    IF items = <<>> THEN <<>>
    ELSE IF IsBootTypeOrder(Head(items).key)
    THEN <<Head(items)>> \o BootTypeItems(Tail(items))
    ELSE BootTypeItems(Tail(items))

\* sorted(keys), line 565
RECURSIVE Insert_sorted(_, _)
Insert_sorted(item, sorted) ==
    IF sorted = <<>> THEN <<item>>
    ELSE IF KeyLess(item.key, Head(sorted).key) THEN <<item>> \o sorted
    ELSE <<Head(sorted)>> \o Insert_sorted(item, Tail(sorted))
RECURSIVE Sorted(_)
Sorted(items) ==
    IF items = <<>> THEN <<>>
    ELSE Insert_sorted(Head(items), Sorted(Tail(items)))

\* _BOOT_SEQUENCE_MAP.get(t, t), lines 433-437 and 572
BOOT_SEQUENCE_MAP(t) ==
    CASE t = "HardDiskDrive" -> "Hdd"
      [] t = "DVDROMDrive" -> "Cd"
      [] t = "PXE" -> "Pxe"
      [] OTHER -> t

\* mutant: the keys are taken in the order of the dictionary
BootSeqOfBios_Unsorted(items) ==
    LET its == BootTypeItems(items)
    IN [i \in 1..Len(its) |-> BOOT_SEQUENCE_MAP(its[i].value)]

\* boot_sequence, lines 563-567: the sequence made from the BIOS attributes
BootSeqOfBios(items) ==
    LET its == Sorted(BootTypeItems(items))
    IN [i \in 1..Len(its) |-> BOOT_SEQUENCE_MAP(its[i].value)]

\* the property boot_sequence, lines 557-569, with the property bios,
\* lines 512-515
SysBootSequence ==
    /\ system.phase = "ready"
    /\ ~system.asked
    /\ IF system.f.json.BootupSequence.v # <<>>
       THEN system' = [system EXCEPT
                         !.asked = TRUE, !.exc = "none",
                         !.seq = system.f.json.BootupSequence.v]
       ELSE \E e \in MakeReqEnds :
               LET sent == [system EXCEPT
                              !.asked = TRUE,
                              !.log = Append(@, Request("GET",
                                         SysAddress \o system.f.bios_path))]
               IN system' =
                    IF e = "raise" THEN [sent EXCEPT !.exc = "make_req"]
                    ELSE IF ~remote.bios.has
                    THEN [sent EXCEPT !.exc = "IBMCError"]
                    ELSE [sent EXCEPT
                            !.seq = BootSeqOfBios(remote.bios.items),
                            !.exc = "none"]
    /\ UNCHANGED remote
    /\ UNCHANGED <<reqVars, cacheVars, op, taskVars, parseVars>>

(***************************************************************************)
(* Specifications.                                                         *)
(***************************************************************************)
\* the class attribute SessionCache.sessions starts empty (line 134) and
\* no driver operation is running; log: whether the history keeps the log
\* of error-free acquisitions
CacheStart(log) ==
    /\ sessions = <<>>
    /\ pc = [c \in Callers |-> "idle"]
    /\ cur = [c \in Callers |-> NoInfo]
    /\ held = [c \in Callers |-> NoService]
    /\ pend = [c \in Callers |-> "ok"]
    /\ nextConn = 0
    /\ chist = [nAcq |-> 0, acq |-> <<>>, clean |-> log, log |-> log,
                rel |-> NoInfo, failed |-> NoInfo]
    /\ op = NoOp

\* no task holds a lock, nothing is parsed and no IBMCSystem is built yet;
\* infos: the values of node.driver_info, paths: the paths that may exist,
\* remotes: what the controller may hold
DriverStart(infos, paths, remotes) ==
    /\ tasks = [c \in Callers |-> NoTask]
    /\ reservation = [n \in TaskNodes |-> "none"]
    /\ driver_info \in infos
    /\ files \in SUBSET paths
    /\ parsed = NoParsed
    /\ system = NoSystem
    /\ remote \in remotes

\* IBMCSession.__init__, lines 373-388, called by IBMCService.__init__,
\* line 245: the token and the expiry are None and create() is called; the
\* connector has no session yet
SessionInit ==
    /\ ~Started /\ session = NoSession
    /\ call' = "create"
    /\ stack' = <<CreateFrame, MakeReqFrame("POST", "login")>>
    /\ UNCHANGED <<attempts, session, ret, hist>>
    /\ UNCHANGED <<cacheVars, opVars>>

\* IBMCService.__init__, line 250: create() returned and the session is
\* given to the connector (set_ibmc_session, lines 279-283)
SetIbmcSession ==
    /\ Done /\ call = "create" /\ ret.k = "val"
    /\ session' = HeaderUpdate([session EXCEPT !.set = TRUE])
    /\ call' = "none"
    /\ ret' = NoRet
    /\ hist' = [InitHist EXCEPT !.issued = hist.issued]
    /\ UNCHANGED <<attempts, stack>>
    /\ UNCHANGED <<cacheVars, opVars>>

\* the execute call returned or raised; the connector is used again
Return ==
    /\ Done /\ call # "create" /\ hist.issued < MaxTokens
    /\ call' = "none"
    /\ ret' = NoRet
    /\ hist' = [InitHist EXCEPT !.issued = hist.issued]
    /\ UNCHANGED <<attempts, session, stack>>
    /\ UNCHANGED <<cacheVars, opVars>>

\* no execute call running, with the given retry budgets, on a connector
\* whose session is set or not
ReqStart(budgets, set) ==
    /\ attempts \in budgets
    /\ session \in {IF b THEN Established ELSE NoSession : b \in set}
    /\ stack = <<>>
    /\ ret = NoRet
    /\ call = "none"
    /\ hist = [InitHist EXCEPT !.issued = session.token]

\* the connector on its own: there is no cache, no caller, no task, no node
\* and no IBMCSystem, and the variables of those layers stay empty
ConnectorAlone ==
    /\ sessions = <<>> /\ pc = <<>> /\ cur = <<>> /\ held = <<>>
    /\ pend = <<>> /\ nextConn = 0 /\ chist = <<>> /\ op = <<>>
    /\ tasks = <<>> /\ reservation = <<>> /\ driver_info = <<>>
    /\ files = {} /\ parsed = <<>> /\ system = <<>> /\ remote = <<>>

InitReq ==
    /\ ReqStart(1..MaxAttempts, BOOLEAN) /\ ConnectorAlone

InitCache ==
    /\ ReqStart({1}, {TRUE}) /\ CacheStart(TRUE)
    /\ DriverStart({NoNode}, {}, {NoRemote})

InitCacheConc ==
    /\ ReqStart({1}, {TRUE}) /\ CacheStart(FALSE)
    /\ DriverStart({NoNode}, {}, {NoRemote})

\* a connector from its construction on, against a controller that issues
\* a new token with every login
InitSession ==
    /\ ReqStart(1..MaxAttempts, {FALSE}) /\ ConnectorAlone

NextSession ==
    \/ SessionInit
    \/ SetIbmcSession
    \/ Execute("GET")
    \/ Return
    \/ SendFresh
    \/ CalleeRaised
    \/ Renewed
    \/ LoginReturned
    \/ TimeoutReturned
    \/ CreateRaised

SpecSession == InitSession /\ [][NextSession]_vars

\* one execute call against a controller that never answers 401
InitEtag ==
    /\ ReqStart(1..MaxAttempts, {TRUE}) /\ ConnectorAlone

NextEtag ==
    \/ \E m \in Methods : Execute(m)
    \/ GetResourceEtag
    \/ EtagReturned
    \/ SendUnexpired
    \/ CalleeRaised

SpecEtag == InitEtag /\ [][NextEtag]_vars

NextReq ==
    \/ \E m \in Methods : Execute(m)
    \/ GetResourceEtag
    \/ EtagReturned
    \/ Send
    \/ CalleeRaised
    \/ Renewed
    \/ LoginReturned
    \/ TimeoutReturned
    \/ CreateRaised

CallerStep(c) ==
    \/ \E di \in DriverInfos : Enter(c, di)
    \/ Construct(c)
    \/ ExpireOldest(c)
    \/ Insert(c)
    \/ BodySend(c)
    \/ Body(c)
    \/ Exit(c)

\* one caller at a time
NextCache == CallerStep("c1")

\* callers whose statements interleave
NextCacheConc == \E c \in Callers : CallerStep(c)

SpecReq == InitReq /\ [][NextReq]_vars

SpecCache == InitCache /\ [][NextCache]_vars

SpecCacheConc == InitCacheConc /\ [][NextCacheConc]_vars

\* a caller is between __enter__ and the end of __exit__ for the identity
\* of di
Busy(di) ==
    \E d \in Callers : pc[d] # "idle" /\ SessionKey(cur[d]) = SessionKey(di)

\* __enter__ by a caller whose identity no other caller is working on
EnterDistinct(c, di) == ~Busy(di) /\ Enter(c, di)

\* callers whose statements interleave and who never work on the same
\* identity at the same time
InitCacheDistinct ==
    /\ ReqStart({1}, {TRUE}) /\ CacheStart(FALSE)
    /\ DriverStart({NoNode}, {}, {NoRemote})

NextCacheDistinct ==
    \E c \in Callers :
        \/ \E di \in DriverInfos : EnterDistinct(c, di)
        \/ Construct(c)
        \/ ExpireOldest(c)
        \/ Insert(c)
        \/ BodySend(c)
        \/ Body(c)
        \/ Exit(c)

SpecCacheDistinct == InitCacheDistinct /\ [][NextCacheDistinct]_vars

InitOp ==
    /\ ReqStart({1}, {TRUE}) /\ CacheStart(FALSE)
    /\ DriverStart({NoNode}, {}, {NoRemote})

NextOp ==
    \/ \E name \in OpNames, node \in Nodes :
          \E arg \in OpArgs(name) : OpCall(name, node, arg)
    \/ OpValidate
    \/ OpEnter
    \/ OpConstruct
    \/ OpRenew
    \/ OpFetch
    \/ OpRead
    \/ OpReset
    \/ OpPatch
    \/ OpBootSeq
    \/ OpPoll
    \/ OpCompare
    \/ OpTimeout

SpecOp == InitOp /\ [][NextOp]_vars

\* tasks of two callers whose steps interleave
InitLock ==
    /\ ReqStart({1}, {TRUE}) /\ CacheStart(FALSE)
    /\ DriverStart({NoNode}, {}, {NoRemote})

NextLock ==
    \E c \in Callers :
        \/ \E node \in TaskNodes, shared \in BOOLEAN :
              TaskAcquire(c, node, shared)
        \/ \E name \in InterfaceOps : TaskCall(c, name)
        \/ TaskReturn(c)
        \/ TaskRelease(c)

SpecLock == InitLock /\ [][NextLock]_vars

\* parse_driver_info applied to the values of node.driver_info
InitParse ==
    /\ ReqStart({1}, {TRUE}) /\ CacheStart(FALSE)
    /\ DriverStart({DriverInfo(a, u, p, v) :
                        a \in Addresses, u \in Credentials,
                        p \in Credentials, v \in VerifyCas}, Paths,
                   {NoRemote})

NextParse == Parse \/ ParseAgain

SpecParse == InitParse /\ [][NextParse]_vars

\* one IBMCSystem built and used against a controller
InitSys ==
    /\ ReqStart({1}, {TRUE}) /\ CacheStart(FALSE)
    /\ DriverStart({NoNode}, {}, Remotes)

NextSys ==
    \/ \E id \in GivenIds : SysInit(id)
    \/ SysGet
    \/ SysBootSequence
    \/ RemoteChange

SpecSys == InitSys /\ [][NextSys]_vars

\* one IBMCSystem that is built, refreshed and used to change the boot
\* source and the power state, against a controller whose system resource
\* changes and may lose fields
SnapRemotes ==
    {Remote(<<"/redfish/v1/Systems/1">>,
            Resource(ps, "Hdd", ResetPath, BiosPath, NoSeq), NoAttributes) :
        ps \in {"On", "Off"}}

InitSnap ==
    /\ ReqStart({1}, {TRUE}) /\ CacheStart(FALSE)
    /\ DriverStart({NoNode}, {}, SnapRemotes)

NextSnap ==
    \/ \E id \in GivenIds : SysInit(id)
    \/ SysGet
    \/ \E device \in SysDevices : SysSetBootSource(device)
    \/ \E reset_type \in SysResetTypes : SysReset(reset_type)
    \/ RemoteChange
    \/ \E name \in {"PowerState", "Boot", "target"} : RemoteDrop(name)

SpecSnap == InitSnap /\ [][NextSnap]_vars

(***************************************************************************)
(* Claims about the request executor, checked under SpecReq.               *)
(***************************************************************************)
Failed == Done /\ ret.k = "exc"
Returned == Done /\ ret.k = "val"

\* C1: a 401 starts one renewal and one re-send; once that re-send itself
\* was answered 401, nothing more is sent and no further renewal is started
\* during the execute call, and the call fails.
C1_RenewOnce ==
    hist.resend401 =>
        /\ ~hist.moreAfterResend401
        /\ Done => Failed

\* C2: a GET or POST whose every send gets no response is sent exactly
\* `attempts` times and then fails with the RequestException; if the first
\* k < attempts sends get no response and the next one succeeds, the call
\* returns that response after exactly k + 1 sends.
C2_RetryBudget ==
    (call \in {"GET", "POST"} /\ hist.nOther = 0) =>
        /\ hist.nReq <= attempts
        /\ (Done /\ ~hist.okSeen) =>
               /\ Failed /\ ret.type = "RequestException"
               /\ ret.status = NoResponse
               /\ hist.nReq = attempts
        /\ (Done /\ hist.okSeen) =>
               /\ Returned
               /\ hist.nConn < attempts
               /\ hist.nReq = hist.nConn + 1

\* the attempt budget (at least 2) was used up by sends without a response
C2_Witness ==
    /\ Failed /\ call \in {"GET", "POST"} /\ attempts >= 2
    /\ hist.nOther = 0 /\ hist.nConn = attempts

\* C3: after a send answered with status >= 500 no request is sent and no
\* renewal is started any more, and the call fails with IBMCError.
C3_ServerErrorNotRetried ==
    hist.saw5xx =>
        /\ ~hist.moreAfter5xx
        /\ Done => (Failed /\ ret.type = "IBMCError")

\* the re-send after a renewal was answered 5xx with attempts left
C3_Witness ==
    /\ Failed /\ hist.saw5xx /\ attempts >= 2
    /\ hist.renewTop = 1 /\ hist.nReq = 2

\* C4: every execute call ends, after a number of requests bounded by the
\* retry budget, by returning or by failing with an error of the request
\* layer: create() never nests until the interpreter's stack is exhausted.
C4_BoundedTermination ==
    ~(ret.k = "exc" /\ ret.type = "RecursionError")

\* C5: every PATCH/PUT sent follows a GET of the same url answered within
\* the same _make_req and carries that GET's entity tag as If-Match; after a
\* GET answered without a tag nothing more is sent and the call fails with
\* IBMCError.
C5_EtagPrecondition ==
    /\ hist.patchOk
    /\ hist.sawNoTag =>
          /\ ~hist.moreAfterNoTag
          /\ Done => (Failed /\ ret.type = "IBMCError")

\* a PATCH/PUT was sent a second time (after a retry or a renewal) and
\* succeeded
C5_Witness ==
    /\ Returned /\ call \in {"PATCH", "PUT"}
    /\ hist.nReq >= 2 /\ hist.okSeen

\* C6: the controller carries out the POST of one execute call at most once.
C6_NoDuplicateSideEffect ==
    call = "POST" => hist.applied <= 1

\* C16: once a send of the request was answered with a 4xx status other
\* than 401, nothing more is sent and no renewal is started during the
\* execute call, and the call fails.
C16_ClientErrorNotRetried ==
    hist.saw4xx =>
        /\ ~hist.moreAfter4xx
        /\ Done => Failed

(***************************************************************************)
(* Claims about the session cache, checked under SpecCache (C7-C9) and     *)
(* SpecCacheConc (C10).                                                    *)
(***************************************************************************)
\* ConnectionIdentity: same address, username and verification policy
SameIdentity(d1, d2) ==
    /\ d1.address = d2.address
    /\ d1.username = d2.username
    /\ d1.verify_ca = d2.verify_ca

\* the entries of the cache whose Transport logged in under di's identity
Cached(ss, di) == {i \in 1..Len(ss) : SameIdentity(ss[i].conn.info, di)}

Conns(ss) == {ss[i].conn : i \in 1..Len(ss)}

\* the Transport of the cache that was constructed, and so in sequential
\* use inserted, first
Oldest(ss) ==
    CHOOSE x \in Conns(ss) : \A y \in Conns(ss) : x.id <= y.id

\* the entries of ss without Transport x, in their order
Without(ss, x) == SelectSeq(ss, LAMBDA e : e.conn # x)

Distinct(log) ==
    \A i, j \in 1..Len(log) : i # j => ~SameIdentity(log[i], log[j])

Min(a, b) == IF a <= b THEN a ELSE b

\* C7: an acquisition returns a cached Transport, constructing nothing and
\* leaving the cache alone, if and only if the cache holds an entry of the
\* same (address, username, verification policy), whatever the password;
\* otherwise it goes on to construct a Transport.
C7_HitIffSameIdentity ==
    [][\A c \in Callers :
         (pc[c] = "idle" /\ pc'[c] # "idle") =>
            LET hits == Cached(sessions, cur'[c]) IN
            IF hits # {}
            THEN /\ pc'[c] = "body"
                 /\ \E i \in hits : held'[c] = sessions[i].conn
                 /\ nextConn' = nextConn
                 /\ sessions' = sessions
            ELSE pc'[c] = "construct"]_vars

\* a configuration got the Transport that logged in with another password
C7_Witness ==
    /\ pc["c1"] = "body"
    /\ held["c1"].id # 0
    /\ SameIdentity(held["c1"].info, cur["c1"])
    /\ held["c1"].info.password # cur["c1"].password

\* C8: with MAX_SESSIONS entries cached, the acquisition of a new identity
\* removes exactly the entry inserted earliest and keeps the others in
\* their order; with fewer it removes nothing; the insertion appends the
\* new entry and a cache hit changes neither the entries nor their order.
C8_FIFOEviction ==
    [][\A c \in Callers :
         /\ (pc[c] = "expire" /\ pc'[c] = "insert") =>
               IF Len(sessions) = MAX_SESSIONS
               THEN sessions' = Without(sessions, Oldest(sessions))
               ELSE sessions' = sessions
         /\ (pc[c] = "insert" /\ pc'[c] = "body") =>
               /\ Len(sessions') = Len(sessions) + 1
               /\ SubSeq(sessions', 1, Len(sessions)) = sessions
               /\ sessions'[Len(sessions')].conn = held[c]
         /\ (pc[c] = "idle" /\ pc'[c] = "body") => sessions' = sessions
      ]_vars

\* the first identity was hit again after the cache filled up, and is the
\* one gone when the next new identity is about to be inserted
C8_Witness ==
    /\ pc["c1"] = "insert"
    /\ chist.clean /\ Len(chist.acq) = MAX_SESSIONS + 1
    /\ SameIdentity(chist.acq[MAX_SESSIONS + 1], chist.acq[1])
    /\ Len(sessions) = MAX_SESSIONS - 1
    /\ Cached(sessions, chist.acq[1]) = {}

\* C9: the cache never holds more than MAX_SESSIONS entries; after k
\* error-free acquisitions of k distinct identities, k Transports have been
\* constructed and the cache holds the min(k, MAX_SESSIONS) identities
\* acquired last, in the order of their acquisition.
C9_BoundedCache ==
    /\ Len(sessions) <= MAX_SESSIONS
    /\ (/\ chist.clean /\ Distinct(chist.acq)
        /\ \A c \in Callers : pc[c] \in {"idle", "body", "request"}) =>
          LET k == Len(chist.acq)
              n == Len(sessions)
          IN /\ nextConn = k
             /\ n = Min(k, MAX_SESSIONS)
             /\ \A i \in 1..n :
                   SameIdentity(sessions[i].conn.info, chist.acq[k - n + i])

\* more distinct identities than the cache holds were acquired without error
C9_Witness ==
    /\ chist.clean /\ Distinct(chist.acq)
    /\ Len(chist.acq) > MAX_SESSIONS
    /\ \A c \in Callers : pc[c] = "idle"

\* C10: two callers that acquire the same identity at the same time never
\* both construct a Transport (and log in) for it.
C10_SingleConstruction ==
    \A c, d \in Callers :
        (c # d /\ pc[c] = "construct" /\ pc[d] = "construct")
            => ~SameIdentity(cur[c], cur[d])

Live ==
    Conns(sessions)
        \cup {held[c] : c \in {d \in Callers : pc[d] \in {"body", "request"}}}

\* C11: among the Transports stored in the cache or in use by a caller, no
\* two belong to the same (address, username, verification policy).
C11_OneLiveTransport ==
    \A x, y \in Live : SameIdentity(x.info, y.info) => x = y

\* C23: with callers on distinct identities, under every interleaving of
\* their steps, the cache never holds more than MAX_SESSIONS entries, and an
\* entry leaves the cache only as the oldest one, evicted by an insertion
\* into the full cache, or by the error release of a caller of its own
\* identity.
C23_CacheNeverCorrupted ==
    [][/\ Len(sessions') <= MAX_SESSIONS
       /\ \A i \in 1..Len(sessions) :
             Cached(sessions', sessions[i].conn.info) = {} =>
                \/ /\ i = 1
                   /\ Len(sessions) = MAX_SESSIONS
                   /\ \E c \in Callers :
                         pc[c] = "expire" /\ pc'[c] = "insert"
                \/ \E c \in Callers :
                      /\ pc[c] = "exit" /\ pc'[c] = "idle"
                      /\ pend[c] = "RequestException"
                      /\ SameIdentity(cur[c], sessions[i].conn.info)]_vars

\* C22: at most one request is in flight on a Transport: no two callers
\* wait at the same time for the answer to a request they sent on the same
\* Transport.
C22_SequentialRequests ==
    \A c, d \in Callers :
        (c # d /\ pc[c] = "request" /\ pc[d] = "request") =>
            held[c] # held[d]

\* C38: the step of __enter__ that constructs the IBMCService (root-service
\* GET and login handshake) leaves the cache as it is, whether it succeeds
\* or fails; when it fails __enter__ ends with no entry for the identity;
\* the steps that evict and insert run only with the constructed service.
C38_ConstructBeforeInsert ==
    [][\A c \in Callers :
          /\ pc[c] = "construct" => sessions' = sessions
          /\ (pc[c] = "construct" /\ pc'[c] = "idle") =>
                IndexOf(sessions', SessionKey(cur[c])) = 0
          /\ pc[c] \in {"expire", "insert"} =>
                /\ held[c] # NoService
                /\ held[c].info = cur[c]]_vars

\* the construction for an identity failed while the cache was full: the
\* cache is still full and has no entry for the identity
C38_Witness ==
    /\ pc["c1"] = "idle"
    /\ chist.failed # NoInfo
    /\ Len(sessions) = MAX_SESSIONS
    /\ IndexOf(sessions, SessionKey(chist.failed)) = 0

\* C39: an __exit__ that gives up the entry of its identity removes it only
\* if the cache maps the identity to the service the caller got from
\* __enter__.
C39_ReleaseOnlyOwnTransport ==
    [][\A c \in Callers :
          (pc[c] = "exit" /\ pc'[c] = "idle" /\ sessions' # sessions) =>
             sessions[IndexOf(sessions, SessionKey(cur[c]))].conn
                 = held[c]]_vars

(***************************************************************************)
(* Claims about the driver operations, checked under SpecOp.               *)
(***************************************************************************)
OpDone == op.phase = "done"
OpFailedWith(type) == OpDone /\ op.result.type = type

\* C13: once a driver operation has failed because a request of it ended
\* with an exception of the requests library, whichever request it was,
\* the cache holds no Transport of the node's identity.
C13_PoisonedEntryRemoved ==
    (OpDone /\ op.cause.type = "RequestException") =>
        Cached(sessions, ParseDriverInfo(op.node).info) = {}

\* C14: when get_system fails because its requests ended with an exception
\* of the requests library, it raises IBMCConnectionError if the controller
\* gave no response and IBMCError if it answered with a rejection status.
C14_ConnectionErrorIffNoResponse ==
    (/\ OpDone /\ op.stage \in {"construct", "fetch"}
     /\ op.cause.type = "RequestException") =>
        IF op.cause.status = NoResponse
        THEN op.result.type = "IBMCConnectionError"
        ELSE op.result.type = "IBMCError"

\* C15: an operation that failed because of a 401 answer (the re-send after
\* the renewal answered 401 again, or the renewal failed) ends with
\* IBMCError or IBMCConnectionError.
C15_AuthExpiredNeverSurfaces ==
    (OpDone /\ op.cause \in {Exc("RequestException", 401),
                            Exc("AttributeError", 0),
                            Exc("RecursionError", 0)}) =>
        op.result.type \in {"IBMCError", "IBMCConnectionError"}

\* the node's driver_info does not pass parse_driver_info
BadNode(node) ==
    MissingInfo(node) \/ node.ibmc_address = StrVal(<<"/", "banana!">>)

\* C17: an operation on a node whose driver_info is missing a required
\* property or has an invalid address ends in its validation, with
\* MissingParameterValue or InvalidParameterValue, before any request is
\* sent, and leaves the session cache as it was.
C17_ValidationFirst ==
    (op.name # "none" /\ BadNode(op.node)) =>
        /\ op.phase \in {"validate", "done"}
        /\ ~op.reqs
        /\ sessions = op.before /\ nextConn = op.beforeConn
        /\ OpDone =>
              /\ op.stage = "validate"
              /\ op.result.type = IF MissingInfo(op.node)
                                  THEN "MissingParameterValue"
                                  ELSE "InvalidParameterValue"

\* an operation on a node without username failed while the cache held a
\* Transport
C17_Witness ==
    /\ OpFailedWith("MissingParameterValue")
    /\ MissingInfo(op.node)
    /\ sessions # <<>>

\* the state a power operation waits for
ExpectedState(power_state) ==
    IF power_state \in {"REBOOT", "SOFT_REBOOT"} THEN "POWER_ON"
    ELSE IF power_state = "SOFT_POWER_OFF" THEN "POWER_OFF"
    ELSE power_state

\* the wait of a power operation has begun
Waiting == op.inWait \/ op.polls > 0 \/ op.phase \in {"wait", "polled"}

C20_MutationFailure ==
    (/\ OpDone /\ op.stage \in {"reset", "patch"}
     /\ op.cause.type = "RequestException") =>
        /\ op.result = Error("IBMCError", TRUE, TRUE)
        /\ ~Waiting
        /\ Len(op.resets) + op.patches = 1

\* the PATCH of set_boot_mode got no response
C20_Witness ==
    /\ OpDone /\ op.name = "set_boot_mode" /\ op.stage = "patch"
    /\ op.cause = Exc("RequestException", NoResponse)

(***************************************************************************)
(* Claims about the locks of the tasks, checked under SpecLock.            *)
(***************************************************************************)
\* the operations that send a reset POST or a boot PATCH
Mutating ==
    {"set_power_state", "reboot", "set_boot_device", "set_boot_mode",
     "inject_nmi"}

\* the body of a mutating operation is running for the task of caller c
Mutates(c) == tasks[c].phase = "run" /\ tasks[c].name \in Mutating

\* C21: the body of a mutating operation (set_power_state, reboot,
\* set_boot_device, set_boot_mode, inject_nmi) never runs for a task that
\* holds only a shared lock: the call fails with ExclusiveLockRequired
\* before the body is entered, so that no request is sent; the task whose
\* mutating operation runs holds the reservation of its node, and two
\* mutating operations on the same node never run at the same time.  Only
\* mutating operations of shared tasks fail this way: the read operations
\* run under a shared lock.
C21_ExclusiveLockRequired ==
    /\ \A c \in Callers :
          /\ Mutates(c) =>
                ~tasks[c].shared /\ reservation[tasks[c].node] = c
          /\ (tasks[c].name \in Mutating /\ tasks[c].shared) =>
                /\ ~tasks[c].ran
                /\ tasks[c].phase = "done"
                /\ tasks[c].result = "ExclusiveLockRequired"
          /\ tasks[c].result = "ExclusiveLockRequired" =>
                tasks[c].name \in Mutating /\ tasks[c].shared
    /\ \A c, d \in Callers :
          (c # d /\ Mutates(c) /\ Mutates(d)) =>
              tasks[c].node # tasks[d].node

\* a mutating operation runs on a node while a shared task reads the same
\* node, and a shared task's mutating call was refused
C21_Witness ==
    /\ Mutates("c1")
    /\ tasks["c2"].node = tasks["c1"].node
    /\ tasks["c2"].shared
    /\ \/ tasks["c2"].phase = "run" /\ tasks["c2"].name = "get_power_state"
       \/ tasks["c2"].result = "ExclusiveLockRequired"

(***************************************************************************)
(* Claims about parse_driver_info, checked under SpecParse.                *)
(***************************************************************************)
\* a value that is absent or empty: no key, null, the empty string, and
\* the number 0, which Python takes for empty too
AbsentOrEmpty(v) == v \in {Absent, Null, StrVal(<<>>), IntVal("0")}

\* C24: parse_driver_info raises MissingParameterValue if and only if the
\* address, the username or the password is absent or empty, also when the
\* address or verify_ca is invalid as well.
C24_MissingParameter ==
    parsed.n = 1 =>
        (parsed.fault = "MissingParameterValue" <=>
            \/ AbsentOrEmpty(driver_info.ibmc_address)
            \/ AbsentOrEmpty(driver_info.ibmc_username)
            \/ AbsentOrEmpty(driver_info.ibmc_password))

\* only the password is missing, and the address and verify_ca are invalid
C24_Witness ==
    /\ parsed.fault = "MissingParameterValue"
    /\ driver_info.ibmc_address = StrVal(<<"/", "banana!">>)
    /\ driver_info.ibmc_username = StrVal(<<"foo">>)
    /\ driver_info.ibmc_password = StrVal(<<>>)
    /\ driver_info.ibmc_verify_ca = IntVal("123456")

\* the address starts with a scheme, "://" and an authority
HasSchemeAndAuthority(t) ==
    /\ Len(t) >= 4
    /\ t[1] \notin {":", "//", "/", "?", "#"}
    /\ t[2] = ":" /\ t[3] = "//"
    /\ t[4] \notin {":", "//", "/", "?", "#"}

\* the address was looked at and accepted, or refused
AddressAccepted == parsed.param \notin {"missing_info", "ibmc_address"}
AddressRefused ==
    parsed.fault = "InvalidParameterValue" /\ parsed.param = "ibmc_address"

\* C25: for a node whose required properties are there, an address with
\* scheme and authority is returned unchanged; one without scheme or
\* without authority is returned with "https://" in front of it, once
\* ("example.com" as "https://example.com", "example.com:42" as
\* "https://example.com:42"); an address that is no string, or that has no
\* scheme and authority even with "https://" in front of it, is refused
\* with InvalidParameterValue; and parsing the returned address returns it
\* unchanged.
C25_AddressNormalization ==
    LET a == driver_info.ibmc_address
        https == <<"https", ":", "//">>
    IN /\ (parsed.n = 1 /\ parsed.fault # "MissingParameterValue") =>
            /\ AddressAccepted \/ AddressRefused
            /\ AddressAccepted =>
                  /\ a.kind = "str"
                  /\ parsed.address = IF HasSchemeAndAuthority(a.toks)
                                      THEN a.toks ELSE https \o a.toks
                  /\ HasSchemeAndAuthority(parsed.address)
            /\ a.kind # "str" => AddressRefused
            /\ (/\ a.kind = "str"
                /\ ~HasSchemeAndAuthority(a.toks)
                /\ ~HasSchemeAndAuthority(https \o a.toks)) => AddressRefused
            /\ a = StrVal(<<"https", ":", "//", "example.com">>) =>
                  /\ AddressAccepted
                  /\ Join(parsed.address) = "https://example.com"
            /\ a = StrVal(<<"example.com">>) =>
                  /\ AddressAccepted
                  /\ Join(parsed.address) = "https://example.com"
            /\ a = StrVal(<<"example.com", ":", "42">>) =>
                  /\ AddressAccepted
                  /\ Join(parsed.address) = "https://example.com:42"
       /\ parsed.n = 2 =>
            /\ parsed.fault = "ok"
            /\ parsed.address = parsed.first

\* "example.com:42" was parsed, and the address returned was parsed again
C25_Witness ==
    /\ parsed.n = 2
    /\ driver_info.ibmc_address = StrVal(<<"example.com", ":", "42">>)
    /\ Join(parsed.address) = "https://example.com:42"

\* the words of the vocabulary in the cases explored
Truthy_Words ==
    {"1", "t", "true", "on", "y", "yes", "True", "YES", "On", "T"}
Falsy_Words ==
    {"0", "f", "false", "off", "n", "no", "FALSE", "No", "oFF", "N"}

\* C26: for a node whose required properties and address are accepted,
\* verify_ca is true when the property is absent, the boolean given, the
\* string given when it names an existing file or directory (also when it
\* is a word of the vocabulary), otherwise true for true/yes/on/1/t/y and
\* false for false/no/off/0/f/n in any case of the letters; any other
\* string and any value that is neither boolean nor string is refused with
\* InvalidParameterValue.
C26_VerifyCa ==
    (parsed.n = 1 /\ AddressAccepted) =>
        LET v == driver_info.ibmc_verify_ca
            w == Join(v.toks)
            Accepted(x) == parsed.fault = "ok" /\ parsed.verify_ca = x
            Refused == /\ parsed.fault = "InvalidParameterValue"
                       /\ parsed.param = "ibmc_verify_ca"
        IN CASE v = Absent -> Accepted(BoolVal(TRUE))
             [] v.kind = "bool" -> Accepted(v)
             [] v.kind = "str" /\ w \in files -> Accepted(v)
             [] v.kind = "str" /\ w \notin files ->
                   IF w \in Truthy_Words THEN Accepted(BoolVal(TRUE))
                   ELSE IF w \in Falsy_Words THEN Accepted(BoolVal(FALSE))
                   ELSE Refused
             [] OTHER -> Refused

\* a file named "true" exists and "true" was returned as the path
C26_Witness ==
    /\ parsed.n = 1 /\ parsed.fault = "ok"
    /\ "true" \in files
    /\ driver_info.ibmc_verify_ca = StrVal(<<"true">>)
    /\ parsed.verify_ca = StrVal(<<"true">>)

(***************************************************************************)
(* Claims about IBMCSystem, checked under SpecSys.                         *)
(***************************************************************************)
CollectionGet == Request("GET", "https://bmc.foo/redfish/v1/Systems")
NoIdGiven == system'.id \in {None, ""}

\* C27: an IBMCSystem built without id has sent, when its constructor
\* returns, one GET of the systems collection and then one GET of the
\* @odata.id of the first member; when the collection is empty the
\* constructor raises IBMCError after the GET of the collection and no
\* system is fetched; built with an id it has sent one request, the GET of
\* that id.
C27_SystemConstruction ==
    [][/\ (system.phase = "get" /\ system'.phase = "ready") =>
             system'.log =
                 IF NoIdGiven
                 THEN <<CollectionGet,
                        Request("GET",
                                "https://bmc.foo" \o remote.members[1])>>
                 ELSE <<Request("GET", "https://bmc.foo" \o system'.id)>>
       /\ (NoIdGiven /\ remote.members = <<>>) =>
             /\ system'.phase \in {"none", "failed"}
             /\ system'.phase = "failed" =>
                   /\ system'.log = <<CollectionGet>>
                   /\ system'.exc \in {"IBMCError", "make_req"}
       /\ (system.phase = "none" /\ system'.exc = "IBMCError") =>
             /\ remote.members = <<>>
             /\ system'.log = <<CollectionGet>>]_vars

\* a system was built without id against a collection of two members
C27_Witness ==
    /\ system.phase = "ready"
    /\ system.id = None
    /\ Len(remote.members) = 2
    /\ Len(system.log) = 2
    /\ system.real_id = "/redfish/v1/Systems/2"

\* the sequence the claim describes for the BIOS attributes explored
ExpectedBootSeq(bios) ==
    IF Len(bios.items) = 5 THEN <<"Hdd", "Cd", "Others", "Pxe">>
    ELSE IF Len(bios.items) = 2 THEN <<"Pxe", "Pxe">>
    ELSE <<>>

\* boot_sequence is read and returns
ReadsBootSequence ==
    ~system.asked /\ system'.asked /\ system'.exc = "none"

\* C28: boot_sequence returns the vendor-extension sequence of the last
\* snapshot as it is, without a request, when that sequence is not empty;
\* otherwise it sends one GET of the BIOS resource and returns the values
\* of the attributes whose key starts with "boottypeorder" in any case of
\* the letters, in ascending order of the keys, HardDiskDrive as Hdd,
\* DVDROMDrive as Cd, PXE as Pxe and any other value unchanged.
C28_BootSequence ==
    [][ReadsBootSequence =>
          LET oem == system.f.json.BootupSequence.v
          IN IF oem # <<>>
             THEN /\ system'.seq = oem
                  /\ system'.log = system.log
             ELSE /\ system'.log =
                        Append(system.log,
                               Request("GET", "https://bmc.foo"
                                                \o system.f.bios_path))
                  /\ system'.seq = ExpectedBootSeq(remote.bios)]_vars

\* the sequence was made from five BIOS attributes
C28_Witness ==
    /\ system.asked /\ system.exc = "none"
    /\ system.f.json.BootupSequence = BootupSeq(<<>>)
    /\ Len(remote.bios.items) = 5
    /\ system.seq = <<"Hdd", "Cd", "Others", "Pxe">>

\* C29: while the system resource of the controller does not change, the
\* power state, the boot settings, the reset path and the BIOS path of the
\* object are after every get() that returned what they were after the
\* first one.
C29_RefreshIdempotent ==
    (system.gets >= 1 /\ system.same) =>
        /\ system.f.power_state = system.first.power_state
        /\ system.f.boot = system.first.boot
        /\ system.f.reset_path = system.first.reset_path
        /\ system.f.bios_path = system.first.bios_path

\* get() returned three times against an unchanged resource
C29_Witness ==
    /\ system.gets = 3
    /\ system.same
    /\ system.f.power_state = "On"

(***************************************************************************)
(* Claims about the credentials, checked under SpecOp.                     *)
(***************************************************************************)
\* C30: every login performed for an operation carries the password of the
\* node's driver_info: when the operation finds the Transport of its
\* identity in the cache, built under another password, and the session of
\* that Transport has expired, the login that renews it does not carry the
\* old password.
C30_NoLoginWithOldPassword ==
    \A p \in op.logins : p = Join(op.node.ibmc_password.toks)

(***************************************************************************)
(* Claim about set_boot_mode, checked under SpecOp (C40).                  *)
(***************************************************************************)
\* the snapshot of a set_boot_mode call has a boot target and an override
\* policy
BothSet(o) ==
    /\ o.sys.target \notin {Missing, None, ""}
    /\ o.sys.enabled \notin {Missing, None, ""}

\* C40: once set_boot_mode has fetched its snapshot, a boot PATCH is sent
\* only if the snapshot has a boot target and an override policy, it is
\* sent once and carries that target, that policy and the constant of the
\* requested mode; with either of them unset the call ends with IBMCError
\* and set_system_boot_source (entity-tag GET and PATCH) is not called.
C40_SetBootMode ==
    (op.name = "set_boot_mode" /\ op.sys # NoSnapshot) =>
       /\ op.patches >= 1 =>
             /\ BothSet(op)
             /\ op.patches = 1
             /\ op.body = [target |-> op.sys.target,
                           enabled |-> op.sys.enabled,
                           mode |-> IF op.arg = "uefi"
                                    THEN "BOOT_SOURCE_MODE_UEFI"
                                    ELSE "BOOT_SOURCE_MODE_BIOS"]
       /\ (op.phase = "done" /\ ~BothSet(op)) =>
             /\ op.result.type = "IBMCError"
             /\ op.patches = 0
             /\ op.body = NoBody

\* set_boot_mode to legacy BIOS succeeded on a system whose boot device is
\* the disk, persistently
C40_Witness ==
    /\ op.name = "set_boot_mode" /\ op.arg = "bios"
    /\ op.phase = "done" /\ op.result = Success
    /\ op.sys.target = "BOOT_SOURCE_TARGET_HDD"
    /\ op.sys.enabled = "BOOT_SOURCE_ENABLED_CONTINUOUS"
    /\ op.patches = 1

(***************************************************************************)
(* Claims about the snapshot of IBMCSystem, checked under SpecSnap         *)
(* (C36, C37).                                                             *)
(***************************************************************************)
\* the request the step sends
SysSends(method) ==
    /\ Len(system'.log) = Len(system.log) + 1
    /\ system'.log[Len(system'.log)].method = method

\* C36: a step in which the object sends a PATCH (set_system_boot_source)
\* or a POST (reset_system) leaves its identifier and every field of its
\* snapshot as they were, whether the request succeeds or fails; the
\* snapshot changes only in a step that sends a GET (construction and
\* refresh).
C36_SnapshotOnlyByGet ==
    [][/\ (SysSends("PATCH") \/ SysSends("POST")) =>
             /\ system'.f = system.f
             /\ system'.real_id = system.real_id
       /\ (system'.f # system.f \/ system'.real_id # system.real_id) =>
             \/ SysSends("GET")
             \/ system.phase = "none"]_vars

\* the machine was switched off through the object, whose snapshot still
\* says On, and the boot device was changed, whose snapshot still says Hdd
C36_Witness ==
    /\ system.phase = "ready" /\ system.exc = "none"
    /\ \E i, j \in 1..Len(system.log) :
          system.log[i].method = "POST" /\ system.log[j].method = "PATCH"
    /\ system.f.power_state = "On" /\ remote.res.PowerState = "Off"
    /\ system.f.boot = "Hdd" /\ remote.res.Boot = "Pxe"

\* C37: a refresh (a get() of the object that was built) that fails, with
\* an error of make_req or for a missing PowerState, Boot or reset target,
\* leaves every field of the snapshot as it was.
C37_RefreshAllOrNothing ==
    [][(system.phase = "ready" /\ SysSends("GET")
        /\ system'.log[Len(system'.log)].url = SysAddress \o system.real_id
        /\ system'.exc # "none")
       => system'.f = system.f]_vars

(***************************************************************************)
(* Claims about IBMCSession.create and the token of the connector,         *)
(* checked under SpecSession (C31 to C34), and about the requests of one   *)
(* execute call when no answer is 401, checked under SpecEtag (C35).       *)
(***************************************************************************)
\* C31: the login POST and the session-timeout GET of create() are sent
\* once each: none of them is in a second or later attempt.
C31_CreateNotRetried ==
    \A i \in 1..Len(stack) :
       stack[i].url \in {"login", "svc"} => stack[i].attempt = 1

\* the create() that runs above frame i of the stack
CreateOf(s, i) == IF i > 1 THEN s[i - 1] ELSE [f |-> "none"]

\* the requests of create() are where its steps put them: the login POST
\* under a create() that has no token yet, the session-timeout GET under a
\* create() that got its token, which the GET carries in its header
CreateOrder(s) ==
    \A i \in 1..Len(s) :
       /\ s[i].url = "login" =>
             /\ s[i].method = "POST"
             /\ CreateOf(s, i).f = "create"
             /\ CreateOf(s, i).step = "post"
             /\ CreateOf(s, i).token = NoToken
       /\ s[i].url = "svc" =>
             /\ s[i].method = "GET"
             /\ CreateOf(s, i).f = "create"
             /\ CreateOf(s, i).step = "get"
             /\ s[i].token # NoToken
             /\ s[i].token = CreateOf(s, i).token
       /\ s[i].f = "create" =>
             /\ i < Len(s) => s[i + 1].url = IF s[i].step = "post"
                                             THEN "login" ELSE "svc"
             /\ s[i].step = "get" <=> s[i].token # NoToken

\* C32: create() sends the login POST first; it sends the session-timeout
\* GET only after the POST returned, with the token of that POST in the
\* header of the GET; the token and the expiry of the IBMCSession change
\* only in the step in which the GET has returned its SessionTimeout, and
\* become that token and (creation + SessionTimeout - 60 seconds).
C32_CreateOrder ==
    [][/\ CreateOrder(stack')
       /\ (Sending /\ Top.url = "svc") =>
             AuthToken(Top) = CreateOf(stack, Len(stack)).token
       /\ (stack # <<>> /\ Top.f = "create" /\ Top.step = "post"
           /\ Len(stack') > Len(stack)) =>
             /\ ret.k = "val" /\ ret.status = 200
             /\ stack'[Len(stack)].token = ret.token
       /\ (session'.token # session.token
           \/ session'.expire_at # session.expire_at) =>
             /\ stack # <<>> /\ Top.f = "create" /\ Top.step = "get"
             /\ ret.k = "val" /\ ret.status = 200 /\ ret.field
             /\ session'.token = Top.token
             /\ session'.expire_at = [created |-> Top.token,
                                      seconds |-> ret.timeout - 60]]_vars

\* a renewal stored the second token of the controller, with the expiry
\* of a session timeout of 120 seconds
C32_Witness ==
    /\ session.set /\ session.token = FirstToken + 1
    /\ session.expire_at = [created |-> FirstToken + 1, seconds |-> 60]
    /\ session.header = FirstToken + 1

\* a renew_ibmc_session call is running
Renewing == \E i \in 1..Len(stack) : stack[i].phase = "renew"

\* C33: on a connector that has its session, the X-Auth-Token header is
\* the token of the IBMCSession whenever no renewal is running, and every
\* request that is sent without a token of its own carries the token of
\* the IBMCSession (after a renewal, the renewed one).
C33_HeaderIsToken ==
    /\ (session.set /\ ~Renewing) => session.header = session.token
    /\ (session.set /\ Sending /\ Top.token = NoToken) =>
          AuthToken(Top) = session.token

\* the request that was answered 401 is sent again after the renewal, with
\* the renewed token
C33_Witness ==
    /\ session.set /\ Sending /\ ~Renewing
    /\ Top.url = "res" /\ Top.phase = "resend"
    /\ session.token > FirstToken
    /\ AuthToken(Top) = session.token

\* C34: a create() that fails leaves the token and the expiry of the
\* IBMCSession and the header of the connector as they were when it was
\* called; a create() that succeeds leaves the token and the expiry of
\* its own handshake.
C34_HandshakeAtomic ==
    [][(stack # <<>> /\ Top.f = "create" /\ Len(stack') < Len(stack)) =>
          /\ session'.header = session.header
          /\ IF ret'.k = "exc"
             THEN /\ session'.token = Top.old
                  /\ session'.expire_at.created = Top.old
             ELSE /\ session'.token = Top.token
                  /\ session'.expire_at.created = Top.token]_vars

\* C35: without 401 answers one execute call sends at most N entity-tag
\* GETs and at most N requests of its own.
C35_AtMostNAttempts ==
    /\ hist.nEtag <= attempts
    /\ hist.nReq <= attempts

====
